---------------------------- MODULE Spec2Model ----------------------------
(***************************************************************************)
(* The stake program's instruction layer                                   *)
(* (programs/stake_api/src/stake_instruction.rs): the wire form of         *)
(* StakeInstruction, the client-side instruction builders, and the         *)
(* dispatcher process_instruction, together with the stake state machine   *)
(* the dispatcher routes to.                                               *)
(*                                                                         *)
(* A run of the model is one transaction: a client either calls one of the *)
(* builders or hands over a raw payload and account list, the accounts are *)
(* loaded, and process_instruction runs once over them (Spec).  In         *)
(* SpecLedger the transactions follow one another over the accounts of a   *)
(* ledger, while the epochs pass and the vote accounts earn credits.  In   *)
(* SpecFunctions a pure function of the program is called once, with       *)
(* arguments of a bounded choice.                                          *)
(***************************************************************************)
EXTENDS Integers, Sequences, FiniteSets, TLC

VARIABLES
    pc,              \* "client" | "built" | "ready" | "done"; "ledger" | "ran" in SpecLedger
    builder,         \* the builder that made `instruction` ("raw": none)
    bargs,           \* the public keys the builder was called with
    instruction,     \* Instruction { accounts: Vec<AccountMeta>, data }
    keyed_accounts,  \* &mut [KeyedAccount]: the accounts as the call left them
    pre_accounts,    \* the same accounts as they were before the call
    data,            \* &[u8]: the payload handed to process_instruction
    result,          \* Result<(), InstructionError> of the call
    invoked,         \* the state-machine operation the dispatcher called
    handed,          \* the account slice handed to that operation
    ledger,          \* the accounts the runtime holds, by public key
    current_epoch,   \* the epoch of the runtime's clock
    was_initialized, \* an Initialize of the stake account has succeeded
    withdrew,        \* a Withdraw has succeeded since the stake was last delegated
    call,            \* SpecFunctions: the function called and its arguments
    returned         \* SpecFunctions: what the call returned

ledger_vars == <<ledger, current_epoch, was_initialized, withdrew>>
fn_vars == <<call, returned>>
vars == <<pc, builder, bargs, instruction, keyed_accounts, pre_accounts,
          data, result, invoked, handed, ledger_vars, fn_vars>>

----------------------------------------------------------------------------
(* Bounds of the model *)

\* the last epoch the ledger's clock reaches
MaxEpoch == 2
\* the times the vote accounts of the ledger earn credits, all in all
MaxVotes == 1

\* accounts a raw account list may carry beyond the instruction's designated ones
MaxExtra == 1

\* the last epoch the warmup/cooldown calculator is asked about
LastEpoch == 15

----------------------------------------------------------------------------
(* Widths of the wire format (bincode: fixed width, little endian) *)

PUBKEY_BYTES == 32
U32_BYTES == 4
U64_BYTES == 8

RECURSIVE ToLE(_, _)
\* the `n`-byte little-endian form of `v`
ToLE(v, n) == IF n = 0 THEN <<>> ELSE <<v % 256>> \o ToLE(v \div 256, n - 1)

RECURSIVE FromLE(_)
\* the value of a little-endian byte string
FromLE(b) == IF b = <<>> THEN 0 ELSE Head(b) + 256 * FromLE(Tail(b))

Take(s, n) == SubSeq(s, 1, n)
Drop(s, n) == SubSeq(s, n + 1, Len(s))
Range(s) == {s[i] : i \in DOMAIN s}

----------------------------------------------------------------------------
(* Public keys.  A Pubkey is 32 opaque bytes; the model names a key by the *)
(* number its bytes spell little-endian.                                   *)

sysvar_clock_id         == 10
sysvar_rewards_id       == 11
sysvar_stake_history_id == 12
sysvar_rent_id          == 13
config_id               == 14
rewards_pools_random_id == 15

\* the keys the clients of the model use
Keys == [stake |-> 1, auth |-> 2, vote |-> 3, to |-> 4, custodian |-> 5, vote2 |-> 6]
UserKeys == {Keys.stake, Keys.auth, Keys.to}

----------------------------------------------------------------------------
(* InstructionError *)

Ok == [ok |-> TRUE, err |-> "", code |-> 0]
Err(e) == [ok |-> FALSE, err |-> e, code |-> 0]
CustomError(c) == [ok |-> FALSE, err |-> "CustomError", code |-> c]

InvalidInstructionData == Err("InvalidInstructionData")
InvalidArgument == Err("InvalidArgument")
InvalidAccountData == Err("InvalidAccountData")
InsufficientFunds == Err("InsufficientFunds")
MissingRequiredSignature == Err("MissingRequiredSignature")
AccountAlreadyInitialized == Err("AccountAlreadyInitialized")

\* StakeError with its two members declared the other way round
StakeErrorCode_reordered(e) ==
    CASE e = "LockupInForce" -> 0 [] e = "NoCreditsToRedeem" -> 1

\* StakeError, in declaration order: the derived ToPrimitive numbers them 0, 1
StakeErrorCode(e) == CASE e = "NoCreditsToRedeem" -> 0 [] e = "LockupInForce" -> 1
\* impl From<StakeError> for InstructionError
StakeErrorInto(e) == CustomError(StakeErrorCode(e))

----------------------------------------------------------------------------
(* StakeInstruction and its wire form *)

Initialize(authorized, lockup) ==
    [tag |-> "Initialize", authorized |-> authorized, lockup |-> lockup]
Authorize(pubkey, stake_authorize) ==
    [tag |-> "Authorize", pubkey |-> pubkey, stake_authorize |-> stake_authorize]
DelegateStake == [tag |-> "DelegateStake"]
RedeemVoteCredits == [tag |-> "RedeemVoteCredits"]
Withdraw(lamports) == [tag |-> "Withdraw", lamports |-> lamports]
Deactivate == [tag |-> "Deactivate"]

\* the variants in declaration order: bincode writes the index as a u32
VariantIndex(tag) ==
    CASE tag = "Initialize" -> 0
      [] tag = "Authorize" -> 1
      [] tag = "DelegateStake" -> 2
      [] tag = "RedeemVoteCredits" -> 3
      [] tag = "Withdraw" -> 4
      [] tag = "Deactivate" -> 5

StakeAuthorizeIndex(a) == CASE a = "Staker" -> 0 [] a = "Withdrawer" -> 1

ser_Authorized(a) == ToLE(a.staker, PUBKEY_BYTES) \o ToLE(a.withdrawer, PUBKEY_BYTES)
ser_Lockup(l) ==
    ToLE(l.unix_timestamp, U64_BYTES) \o ToLE(l.epoch, U64_BYTES)
        \o ToLE(l.custodian, PUBKEY_BYTES)

\* bincode::serialize(&StakeInstruction)
serialize(i) ==
    ToLE(VariantIndex(i.tag), U32_BYTES) \o
    CASE i.tag = "Initialize" -> ser_Authorized(i.authorized) \o ser_Lockup(i.lockup)
      [] i.tag = "Authorize" ->
            ToLE(i.pubkey, PUBKEY_BYTES)
                \o ToLE(StakeAuthorizeIndex(i.stake_authorize), U32_BYTES)
      [] i.tag = "Withdraw" -> ToLE(i.lamports, U64_BYTES)
      [] OTHER -> <<>>

DecodeErr == [ok |-> FALSE]
Decoded(i) == [ok |-> TRUE, val |-> i]

\* the fields of each variant, read in order from the bytes after the index;
\* a read past the end of the slice is an error, bytes left over are not
de_Initialize(b) ==
    IF Len(b) < 3 * PUBKEY_BYTES + 2 * U64_BYTES THEN DecodeErr
    ELSE LET staker == FromLE(Take(b, PUBKEY_BYTES))
             b1 == Drop(b, PUBKEY_BYTES)
             withdrawer == FromLE(Take(b1, PUBKEY_BYTES))
             b2 == Drop(b1, PUBKEY_BYTES)
             unix_timestamp == FromLE(Take(b2, U64_BYTES))
             b3 == Drop(b2, U64_BYTES)
             epoch == FromLE(Take(b3, U64_BYTES))
             b4 == Drop(b3, U64_BYTES)
             custodian == FromLE(Take(b4, PUBKEY_BYTES))
         IN Decoded(Initialize(
                [staker |-> staker, withdrawer |-> withdrawer],
                [unix_timestamp |-> unix_timestamp, epoch |-> epoch,
                 custodian |-> custodian]))

\* de_Authorize with the two roles of StakeAuthorize read the other way round
de_Authorize_roles_swapped(b) ==
    IF Len(b) < PUBKEY_BYTES + U32_BYTES THEN DecodeErr
    ELSE LET pubkey == FromLE(Take(b, PUBKEY_BYTES))
             idx == FromLE(Take(Drop(b, PUBKEY_BYTES), U32_BYTES))
         IN CASE idx = 0 -> Decoded(Authorize(pubkey, "Withdrawer"))
              [] idx = 1 -> Decoded(Authorize(pubkey, "Staker"))
              [] OTHER -> DecodeErr

de_Authorize(b) ==
    IF Len(b) < PUBKEY_BYTES + U32_BYTES THEN DecodeErr
    ELSE LET pubkey == FromLE(Take(b, PUBKEY_BYTES))
             idx == FromLE(Take(Drop(b, PUBKEY_BYTES), U32_BYTES))
         IN CASE idx = 0 -> Decoded(Authorize(pubkey, "Staker"))
              [] idx = 1 -> Decoded(Authorize(pubkey, "Withdrawer"))
              [] OTHER -> DecodeErr

de_Withdraw(b) ==
    IF Len(b) < U64_BYTES THEN DecodeErr
    ELSE Decoded(Withdraw(FromLE(Take(b, U64_BYTES))))

\* deserialize with a catch-all arm: an unknown index read as the last variant
deserialize_catch_all(b) ==
    IF Len(b) < U32_BYTES THEN DecodeErr
    ELSE LET idx == FromLE(Take(b, U32_BYTES))
             body == Drop(b, U32_BYTES)
         IN CASE idx = 0 -> de_Initialize(body)
              [] idx = 1 -> de_Authorize(body)
              [] idx = 2 -> Decoded(DelegateStake)
              [] idx = 3 -> Decoded(RedeemVoteCredits)
              [] idx = 4 -> de_Withdraw(body)
              [] OTHER -> Decoded(Deactivate)

\* bincode::deserialize::<StakeInstruction>(data)
deserialize(b) ==
    IF Len(b) < U32_BYTES THEN DecodeErr
    ELSE LET idx == FromLE(Take(b, U32_BYTES))
             body == Drop(b, U32_BYTES)
         IN CASE idx = 0 -> de_Initialize(body)
              [] idx = 1 -> de_Authorize(body)
              [] idx = 2 -> Decoded(DelegateStake)
              [] idx = 3 -> Decoded(RedeemVoteCredits)
              [] idx = 4 -> de_Withdraw(body)
              [] idx = 5 -> Decoded(Deactivate)
              [] OTHER -> DecodeErr

----------------------------------------------------------------------------
(* Accounts.  An account's data region is modelled by what it parses to:   *)
(* `kind` is the type its bytes hold ("empty": a zero-length region, which *)
(* parses as nothing); the regions rent is computed on carry their `len`.  *)

\* std::mem::size_of::<StakeState>(), the space create_account gives a stake account
STAKE_STATE_SIZE == 200
\* Delegation.deactivation_epoch while the stake is not deactivated
EPOCH_MAX == 1000000

Account(lamports, d) == [lamports |-> lamports, data |-> d]
KeyedAccount(key, is_signer, account) ==
    [key |-> key, is_signer |-> is_signer, account |-> account]
\* AccountMeta::new(pubkey, is_signer) / AccountMeta::new_credit_only(pubkey, is_signer)
AccountMeta_new(pubkey, is_signer) ==
    [pubkey |-> pubkey, is_signer |-> is_signer, is_writable |-> TRUE]
AccountMeta_new_credit_only(pubkey, is_signer) ==
    [pubkey |-> pubkey, is_signer |-> is_signer, is_writable |-> FALSE]

EmptyData == [kind |-> "empty", len |-> 0]
\* Account::default()
AccountDefault == Account(0, EmptyData)

ClockData(epoch, unix_timestamp) ==
    [kind |-> "clock", epoch |-> epoch, unix_timestamp |-> unix_timestamp]
RewardsData(epoch, point_value) ==
    [kind |-> "rewards", epoch |-> epoch, point_value |-> point_value]
\* entries: epoch -> {effective, activating, deactivating}, for the epochs it holds
StakeHistoryData(entries) ==
    [kind |-> "stake_history", entries |-> entries]
ConfigData == [kind |-> "config"]
RentData(per_byte) == [kind |-> "rent", lamports_per_byte |-> per_byte]
VoteData(credits) == [kind |-> "vote", credits |-> credits]
StakeData(state) == [kind |-> "stake", len |-> STAKE_STATE_SIZE, state |-> state]

Uninitialized == [tag |-> "Uninitialized"]
Initialized(meta) == [tag |-> "Initialized", meta |-> meta]
Stake(meta, stake) == [tag |-> "Stake", meta |-> meta, stake |-> stake]
RewardsPool == [tag |-> "RewardsPool"]

\* the value or the error of a parse
Parsed(v) == [ok |-> TRUE, val |-> v]
ParseErr(e) == [ok |-> FALSE, err |-> e]

\* sysvar::<S>::from_keyed_account / config::from_keyed_account: the account
\* must carry the id, and its data must parse as the type
from_keyed_account(ka, id, kind) ==
    IF ka.key # id THEN ParseErr(InvalidArgument)
    ELSE IF ka.account.data.kind # kind THEN ParseErr(InvalidAccountData)
    ELSE Parsed(ka.account.data)

sysvar_clock_from_keyed_account(ka) == from_keyed_account(ka, sysvar_clock_id, "clock")
sysvar_rewards_from_keyed_account(ka) ==
    from_keyed_account(ka, sysvar_rewards_id, "rewards")
sysvar_stake_history_from_keyed_account(ka) ==
    from_keyed_account(ka, sysvar_stake_history_id, "stake_history")
config_from_keyed_account(ka) == from_keyed_account(ka, config_id, "config")

\* bytes of bookkeeping rent charges every account for
ACCOUNT_STORAGE_OVERHEAD == 128
\* RentCalculator::default(): lamports per byte-year times the exemption threshold
DEFAULT_LAMPORTS_PER_BYTE == 6960

minimum_balance(per_byte, len) == (ACCOUNT_STORAGE_OVERHEAD + len) * per_byte

\* rent::verify_rent_exemption(me, rent_account)
verify_rent_exemption(me, rent_account) ==
    LET rent == from_keyed_account(rent_account, sysvar_rent_id, "rent")
    IN IF ~rent.ok THEN rent.err
       ELSE IF me.account.lamports
                 < minimum_balance(rent.val.lamports_per_byte, me.account.data.len)
            THEN InsufficientFunds
       ELSE Ok

----------------------------------------------------------------------------
(* The warmup/cooldown calculator: the effective part of a delegation at   *)
(* an epoch, walked epoch by epoch over the stake history.                  *)

\* the warmup/cooldown rate, a fraction: a quarter of the cluster's stake an epoch
RATE_NUM == 1
RATE_DEN == 4

Min(a, b) == IF a < b THEN a ELSE b

RECURSIVE warmup_uncapped(_, _, _, _, _)
\* warmup taking an epoch's whole allowance, beyond what is left to warm up
warmup_uncapped(amount, eff, e, target, entries) ==
    IF e >= target \/ eff >= amount THEN eff
    ELSE LET gain == IF e \in DOMAIN entries
                     THEN (RATE_NUM * (entries[e].effective + entries[e].activating))
                              \div RATE_DEN
                     ELSE 0
         IN warmup_uncapped(amount, eff + gain, e + 1, target, entries)

RECURSIVE warmup(_, _, _, _, _)
warmup(amount, eff, e, target, entries) ==
    IF e >= target \/ eff >= amount THEN eff
    ELSE LET gain == IF e \in DOMAIN entries
                     THEN Min(amount - eff,
                              (RATE_NUM * (entries[e].effective + entries[e].activating))
                                  \div RATE_DEN)
                     ELSE 0
         IN warmup(amount, eff + gain, e + 1, target, entries)

RECURSIVE cooldown(_, _, _, _)
cooldown(eff, e, target, entries) ==
    IF e >= target \/ eff = 0 THEN eff
    ELSE LET loss == IF e \in DOMAIN entries
                     THEN Min(eff,
                              (RATE_NUM * (entries[e].effective + entries[e].deactivating))
                                  \div RATE_DEN)
                     ELSE 0
         IN cooldown(eff - loss, e + 1, target, entries)

activated_stake(d, epoch, entries) ==
    IF epoch <= d.activation_epoch THEN 0
    ELSE warmup(d.stake, 0, d.activation_epoch, epoch, entries)

effective_stake(d, epoch, entries) ==
    IF d.deactivation_epoch = EPOCH_MAX \/ epoch < d.deactivation_epoch
    THEN activated_stake(d, epoch, entries)
    ELSE cooldown(activated_stake(d, d.deactivation_epoch, entries),
                  d.deactivation_epoch, epoch, entries)

----------------------------------------------------------------------------
(* The stake state machine (trait StakeAccount for KeyedAccount).  Each    *)
(* operation returns its result and the accounts as it leaves them.        *)

state_of(ka) ==
    IF ka.account.data.kind = "stake" THEN Parsed(ka.account.data.state)
    ELSE ParseErr(InvalidAccountData)

set_state(ka, st) == [ka EXCEPT !.account.data = StakeData(st)]

\* the keys that signed, among the account itself and the accounts handed over
signers(me, others) ==
    {k.key : k \in {x \in {me} \cup Range(others) : x.is_signer}}

lockup_in_force(lockup, clock) ==
    clock.unix_timestamp < lockup.unix_timestamp \/ clock.epoch < lockup.epoch

OpResult(r, me, others) == [result |-> r, me |-> me, others |-> others]

StakeAccount_initialize(me, authorized, lockup) ==
    LET st == state_of(me)
    IN IF ~st.ok THEN OpResult(st.err, me, <<>>)
       ELSE IF st.val.tag # "Uninitialized"
            THEN OpResult(AccountAlreadyInitialized, me, <<>>)
       ELSE OpResult(Ok,
                set_state(me, Initialized(
                    [rent_exempt_reserve |->
                        minimum_balance(DEFAULT_LAMPORTS_PER_BYTE, me.account.data.len),
                     authorized |-> authorized, lockup |-> lockup])),
                <<>>)

StakeAccount_authorize(me, new_key, stake_authorize, others) ==
    LET st == state_of(me)
    IN IF ~st.ok THEN OpResult(st.err, me, others)
       ELSE IF st.val.tag \notin {"Initialized", "Stake"}
            THEN OpResult(InvalidAccountData, me, others)
       ELSE LET meta == st.val.meta
                cur == IF stake_authorize = "Staker" THEN meta.authorized.staker
                       ELSE meta.authorized.withdrawer
                meta2 == IF stake_authorize = "Staker"
                         THEN [meta EXCEPT !.authorized.staker = new_key]
                         ELSE [meta EXCEPT !.authorized.withdrawer = new_key]
            IN IF cur \notin signers(me, others)
               THEN OpResult(MissingRequiredSignature, me, others)
               ELSE OpResult(Ok, set_state(me, [st.val EXCEPT !.meta = meta2]), others)

StakeAccount_delegate_stake(me, vote, clock, config, others) ==
    LET st == state_of(me)
    IN IF ~st.ok THEN OpResult(st.err, me, others)
       ELSE IF st.val.tag \notin {"Initialized", "Stake"}
            THEN OpResult(InvalidAccountData, me, others)
       ELSE IF st.val.meta.authorized.staker \notin signers(me, others)
            THEN OpResult(MissingRequiredSignature, me, others)
       ELSE IF vote.account.data.kind # "vote"
            THEN OpResult(InvalidAccountData, me, others)
       ELSE LET meta == st.val.meta
                fresh == [delegation |->
                             [voter_pubkey |-> vote.key,
                              stake |-> me.account.lamports - meta.rent_exempt_reserve,
                              activation_epoch |-> clock.epoch,
                              deactivation_epoch |-> EPOCH_MAX],
                          credits_observed |-> vote.account.data.credits]
            IN IF st.val.tag = "Stake"
                  /\ st.val.stake.delegation.voter_pubkey = vote.key
                  /\ st.val.stake.delegation.deactivation_epoch = EPOCH_MAX
               THEN OpResult(Ok, me, others)
               ELSE OpResult(Ok, set_state(me, Stake(meta, fresh)), others)

\* others: <<vote, rewards_pool>>
StakeAccount_redeem_vote_credits(me, vote, rewards_pool, rewards, stake_history) ==
    LET st == state_of(me)
        pool == state_of(rewards_pool)
        same == <<vote, rewards_pool>>
    IN IF ~st.ok THEN OpResult(st.err, me, same)
       ELSE IF st.val.tag # "Stake" THEN OpResult(InvalidAccountData, me, same)
       ELSE IF ~pool.ok \/ vote.account.data.kind # "vote"
            THEN OpResult(InvalidAccountData, me, same)
       ELSE IF pool.val.tag # "RewardsPool" THEN OpResult(InvalidAccountData, me, same)
       \* the credits are those of the vote account the stake is delegated to
       ELSE IF st.val.stake.delegation.voter_pubkey # vote.key
            THEN OpResult(InvalidArgument, me, same)
       ELSE LET stake == st.val.stake
                vote_credits == vote.account.data.credits
                new_credits == vote_credits - stake.credits_observed
                reward == new_credits
                            * effective_stake(stake.delegation, rewards.epoch,
                                              stake_history.entries)
                            * rewards.point_value
            IN IF new_credits <= 0
               THEN OpResult(StakeErrorInto("NoCreditsToRedeem"), me, same)
               ELSE IF rewards_pool.account.lamports < reward
               THEN OpResult(Err("UnbalancedInstruction"), me, same)
               ELSE OpResult(Ok,
                        set_state(
                            [me EXCEPT !.account.lamports = @ + reward],
                            Stake(st.val.meta,
                                  [stake EXCEPT !.credits_observed = vote_credits,
                                                !.delegation.stake = @ + reward])),
                        <<vote,
                          [rewards_pool EXCEPT !.account.lamports = @ - reward]>>)

\* to_and_signers: the destination first, then any further signers
StakeAccount_withdraw(me, lamports, clock, stake_history, to_and_signers) ==
    LET st == state_of(me)
        same == to_and_signers
        signed == signers(me, to_and_signers)
    IN IF ~st.ok THEN OpResult(st.err, me, same)
       ELSE LET has_meta == st.val.tag \in {"Initialized", "Stake"}
                reserve == IF has_meta THEN st.val.meta.rent_exempt_reserve ELSE 0
                staked == IF st.val.tag = "Stake"
                          THEN effective_stake(st.val.stake.delegation, clock.epoch,
                                               stake_history.entries)
                          ELSE 0
                authority == IF has_meta THEN st.val.meta.authorized.withdrawer
                             ELSE me.key
            IN IF authority \notin signed
               THEN OpResult(MissingRequiredSignature, me, same)
               ELSE IF has_meta /\ lockup_in_force(st.val.meta.lockup, clock)
                       /\ st.val.meta.lockup.custodian \notin signed
               THEN OpResult(StakeErrorInto("LockupInForce"), me, same)
               ELSE IF lamports > me.account.lamports - reserve - staked
               THEN OpResult(InsufficientFunds, me, same)
               ELSE OpResult(Ok,
                        [me EXCEPT !.account.lamports = @ - lamports],
                        [to_and_signers EXCEPT ![1].account.lamports = @ + lamports])

StakeAccount_deactivate_stake(me, clock, others) ==
    LET st == state_of(me)
    IN IF ~st.ok THEN OpResult(st.err, me, others)
       ELSE IF st.val.tag # "Stake" THEN OpResult(InvalidAccountData, me, others)
       ELSE IF st.val.meta.authorized.staker \notin signers(me, others)
            THEN OpResult(MissingRequiredSignature, me, others)
       ELSE IF st.val.stake.delegation.deactivation_epoch # EPOCH_MAX
            THEN OpResult(Err("StakeAlreadyDeactivated"), me, others)
       ELSE OpResult(Ok,
                set_state(me, [st.val EXCEPT
                    !.stake.delegation.deactivation_epoch = clock.epoch]),
                others)

----------------------------------------------------------------------------
(* process_instruction: the dispatcher.  `me` is the primary account,      *)
(* `rest` the accounts after it.  A call yields its result, the accounts   *)
(* as it leaves them, the operation it invoked ("none": it returned before *)
(* calling one) and the account slice it handed to that operation.         *)

Out(r, me, rest, op, slice) ==
    [result |-> r, accounts |-> <<me>> \o rest, invoked |-> op, handed |-> slice]
\* an early return: nothing called, nothing written
Bail(r, me, rest) == Out(r, me, rest, "none", <<>>)

\* process_Initialize calling initialize before it verifies the rent exemption
process_Initialize_initialize_first(me, rest, authorized, lockup) ==
    IF rest = <<>> THEN Bail(InvalidInstructionData, me, rest)
    ELSE LET op == StakeAccount_initialize(me, authorized, lockup)
             exempt == verify_rent_exemption(me, rest[1])
         IN IF ~op.result.ok THEN Out(op.result, op.me, rest, "initialize", <<>>)
            ELSE Out(exempt, op.me, rest, "initialize", <<>>)

\* process_Initialize judging the balance by RentCalculator::default(), whatever
\* the rent account holds
process_Initialize_default_rent(me, rest, authorized, lockup) ==
    IF rest = <<>> THEN Bail(InvalidInstructionData, me, rest)
    ELSE LET rent == from_keyed_account(rest[1], sysvar_rent_id, "rent")
             exempt == IF ~rent.ok THEN rent.err
                       ELSE IF me.account.lamports
                                 < minimum_balance(DEFAULT_LAMPORTS_PER_BYTE,
                                                   me.account.data.len)
                            THEN InsufficientFunds
                       ELSE Ok
             op == StakeAccount_initialize(me, authorized, lockup)
         IN IF ~exempt.ok THEN Bail(exempt, me, rest)
            ELSE Out(op.result, op.me, rest, "initialize", <<>>)

\* process_Initialize handing Lockup::default() to initialize, not the decoded lockup
process_Initialize_default_lockup(me, rest, authorized, lockup) ==
    IF rest = <<>> THEN Bail(InvalidInstructionData, me, rest)
    ELSE LET exempt == verify_rent_exemption(me, rest[1])
             op == StakeAccount_initialize(me, authorized,
                       [unix_timestamp |-> 0, epoch |-> 0, custodian |-> 0])
         IN IF ~exempt.ok THEN Bail(exempt, me, rest)
            ELSE Out(op.result, op.me, rest, "initialize", <<>>)

\* process_Initialize reading the rent account and not holding the balance
\* against it
process_Initialize_rent_unverified(me, rest, authorized, lockup) ==
    IF rest = <<>> THEN Bail(InvalidInstructionData, me, rest)
    ELSE LET rent == from_keyed_account(rest[1], sysvar_rent_id, "rent")
             op == StakeAccount_initialize(me, authorized, lockup)
         IN IF ~rent.ok THEN Bail(rent.err, me, rest)
            ELSE Out(op.result, op.me, rest, "initialize", <<>>)

process_Initialize(me, rest, authorized, lockup) ==
    IF rest = <<>> THEN Bail(InvalidInstructionData, me, rest)
    ELSE LET exempt == verify_rent_exemption(me, rest[1])
             op == StakeAccount_initialize(me, authorized, lockup)
         IN IF ~exempt.ok THEN Bail(exempt, me, rest)
            ELSE Out(op.result, op.me, rest, "initialize", <<>>)

\* process_Authorize asking for an account after the primary one, as the other
\* arms do
process_Authorize_needs_signer(me, rest, authorized_pubkey, stake_authorize) ==
    IF rest = <<>> THEN Bail(InvalidInstructionData, me, rest)
    ELSE LET op == StakeAccount_authorize(me, authorized_pubkey, stake_authorize, rest)
         IN Out(op.result, op.me, op.others, "authorize", rest)

\* process_Authorize handing over &rest[1..]: the first candidate signer is lost
process_Authorize_first_skipped(me, rest, authorized_pubkey, stake_authorize) ==
    LET first == IF rest = <<>> THEN <<>> ELSE <<Head(rest)>>
        slice == IF rest = <<>> THEN <<>> ELSE Tail(rest)
        op == StakeAccount_authorize(me, authorized_pubkey, stake_authorize, slice)
    IN Out(op.result, op.me, first \o op.others, "authorize", slice)

process_Authorize(me, rest, authorized_pubkey, stake_authorize) ==
    LET op == StakeAccount_authorize(me, authorized_pubkey, stake_authorize, rest)
    IN Out(op.result, op.me, op.others, "authorize", rest)

\* process_DelegateStake reading the clock account before it counts the accounts
process_DelegateStake_clock_first(me, rest) ==
    IF Len(rest) >= 2 /\ ~sysvar_clock_from_keyed_account(rest[2]).ok
    THEN Bail(sysvar_clock_from_keyed_account(rest[2]).err, me, rest)
    ELSE IF Len(rest) < 3 THEN Bail(InvalidInstructionData, me, rest)
    ELSE LET vote == rest[1]
             clock == sysvar_clock_from_keyed_account(rest[2])
             config == config_from_keyed_account(rest[3])
             slice == Drop(rest, 3)
             op == StakeAccount_delegate_stake(me, vote, clock.val, config.val, slice)
         IN IF ~config.ok THEN Bail(config.err, me, rest)
            ELSE Out(op.result, op.me, Take(rest, 3) \o op.others,
                     "delegate_stake", slice)

\* process_DelegateStake reading the vote account as VoteState::default(),
\* which holds no credits
process_DelegateStake_default_vote(me, rest) ==
    IF Len(rest) < 3 THEN Bail(InvalidInstructionData, me, rest)
    ELSE LET vote == [rest[1] EXCEPT !.account.data = VoteData(0)]
             clock == sysvar_clock_from_keyed_account(rest[2])
             config == config_from_keyed_account(rest[3])
             slice == Drop(rest, 3)
             op == StakeAccount_delegate_stake(me, vote, clock.val, config.val, slice)
         IN IF ~clock.ok THEN Bail(clock.err, me, rest)
            ELSE IF ~config.ok THEN Bail(config.err, me, rest)
            ELSE Out(op.result, op.me, Take(rest, 3) \o op.others,
                     "delegate_stake", slice)

\* process_DelegateStake parsing the config account before the clock
process_DelegateStake_config_first(me, rest) ==
    IF Len(rest) < 3 THEN Bail(InvalidInstructionData, me, rest)
    ELSE LET vote == rest[1]
             clock == sysvar_clock_from_keyed_account(rest[2])
             config == config_from_keyed_account(rest[3])
             slice == Drop(rest, 3)
             op == StakeAccount_delegate_stake(me, vote, clock.val, config.val, slice)
         IN IF ~config.ok THEN Bail(config.err, me, rest)
            ELSE IF ~clock.ok THEN Bail(clock.err, me, rest)
            ELSE Out(op.result, op.me, Take(rest, 3) \o op.others,
                     "delegate_stake", slice)

process_DelegateStake(me, rest) ==
    IF Len(rest) < 3 THEN Bail(InvalidInstructionData, me, rest)
    ELSE LET vote == rest[1]
             clock == sysvar_clock_from_keyed_account(rest[2])
             config == config_from_keyed_account(rest[3])
             slice == Drop(rest, 3)
             op == StakeAccount_delegate_stake(me, vote, clock.val, config.val, slice)
         IN IF ~clock.ok THEN Bail(clock.err, me, rest)
            ELSE IF ~config.ok THEN Bail(config.err, me, rest)
            ELSE Out(op.result, op.me, Take(rest, 3) \o op.others,
                     "delegate_stake", slice)

\* process_RedeemVoteCredits asking for the stake account's signature
process_RedeemVoteCredits_signed(me, rest) ==
    IF Len(rest) # 4 THEN Bail(InvalidInstructionData, me, rest)
    ELSE LET vote == rest[1]
             rewards_pool == rest[2]
             rewards == sysvar_rewards_from_keyed_account(rest[3])
             stake_history == sysvar_stake_history_from_keyed_account(rest[4])
             op == StakeAccount_redeem_vote_credits(
                       me, vote, rewards_pool, rewards.val, stake_history.val)
         IN IF ~rewards.ok THEN Bail(rewards.err, me, rest)
            ELSE IF ~stake_history.ok THEN Bail(stake_history.err, me, rest)
            ELSE IF ~me.is_signer THEN Bail(MissingRequiredSignature, me, rest)
            ELSE Out(op.result, op.me, op.others \o Drop(rest, 2),
                     "redeem_vote_credits", <<>>)

\* process_RedeemVoteCredits with the count of the other variants: at least 4
process_RedeemVoteCredits_at_least(me, rest) ==
    IF Len(rest) < 4 THEN Bail(InvalidInstructionData, me, rest)
    ELSE LET vote == rest[1]
             rewards_pool == rest[2]
             rewards == sysvar_rewards_from_keyed_account(rest[3])
             stake_history == sysvar_stake_history_from_keyed_account(rest[4])
             op == StakeAccount_redeem_vote_credits(
                       me, vote, rewards_pool, rewards.val, stake_history.val)
         IN IF ~rewards.ok THEN Bail(rewards.err, me, rest)
            ELSE IF ~stake_history.ok THEN Bail(stake_history.err, me, rest)
            ELSE Out(op.result, op.me, op.others \o Drop(rest, 2),
                     "redeem_vote_credits", <<>>)

process_RedeemVoteCredits(me, rest) ==
    IF Len(rest) # 4 THEN Bail(InvalidInstructionData, me, rest)
    ELSE LET vote == rest[1]
             rewards_pool == rest[2]
             rewards == sysvar_rewards_from_keyed_account(rest[3])
             stake_history == sysvar_stake_history_from_keyed_account(rest[4])
             op == StakeAccount_redeem_vote_credits(
                       me, vote, rewards_pool, rewards.val, stake_history.val)
         IN IF ~rewards.ok THEN Bail(rewards.err, me, rest)
            ELSE IF ~stake_history.ok THEN Bail(stake_history.err, me, rest)
            ELSE Out(op.result, op.me, op.others \o Drop(rest, 2),
                     "redeem_vote_credits", <<>>)

\* process_Withdraw handing over the destination alone (&mut rest[2..3]): the
\* signers after it are lost
process_Withdraw_destination_only(me, rest, lamports) ==
    IF Len(rest) < 3 THEN Bail(InvalidInstructionData, me, rest)
    ELSE LET clock == sysvar_clock_from_keyed_account(rest[1])
             stake_history == sysvar_stake_history_from_keyed_account(rest[2])
             slice == <<rest[3]>>
             op == StakeAccount_withdraw(
                       me, lamports, clock.val, stake_history.val, slice)
         IN IF ~clock.ok THEN Bail(clock.err, me, rest)
            ELSE IF ~stake_history.ok THEN Bail(stake_history.err, me, rest)
            ELSE Out(op.result, op.me, Take(rest, 2) \o op.others \o Drop(rest, 3),
                     "withdraw", slice)

\* process_Withdraw checking the stake history account and then handing
\* StakeHistory::default() to withdraw
process_Withdraw_default_history(me, rest, lamports) ==
    IF Len(rest) < 3 THEN Bail(InvalidInstructionData, me, rest)
    ELSE LET clock == sysvar_clock_from_keyed_account(rest[1])
             stake_history == sysvar_stake_history_from_keyed_account(rest[2])
             slice == Drop(rest, 2)
             op == StakeAccount_withdraw(
                       me, lamports, clock.val, StakeHistoryData(<<>>), slice)
         IN IF ~clock.ok THEN Bail(clock.err, me, rest)
            ELSE IF ~stake_history.ok THEN Bail(stake_history.err, me, rest)
            ELSE Out(op.result, op.me, Take(rest, 2) \o op.others, "withdraw", slice)

\* process_Withdraw reading the stake history account before the clock account
process_Withdraw_history_first(me, rest, lamports) ==
    IF Len(rest) < 3 THEN Bail(InvalidInstructionData, me, rest)
    ELSE LET clock == sysvar_clock_from_keyed_account(rest[1])
             stake_history == sysvar_stake_history_from_keyed_account(rest[2])
             slice == Drop(rest, 2)
             op == StakeAccount_withdraw(
                       me, lamports, clock.val, stake_history.val, slice)
         IN IF ~stake_history.ok THEN Bail(stake_history.err, me, rest)
            ELSE IF ~clock.ok THEN Bail(clock.err, me, rest)
            ELSE Out(op.result, op.me, Take(rest, 2) \o op.others, "withdraw", slice)

process_Withdraw(me, rest, lamports) ==
    IF Len(rest) < 3 THEN Bail(InvalidInstructionData, me, rest)
    ELSE LET clock == sysvar_clock_from_keyed_account(rest[1])
             stake_history == sysvar_stake_history_from_keyed_account(rest[2])
             slice == Drop(rest, 2)
             op == StakeAccount_withdraw(
                       me, lamports, clock.val, stake_history.val, slice)
         IN IF ~clock.ok THEN Bail(clock.err, me, rest)
            ELSE IF ~stake_history.ok THEN Bail(stake_history.err, me, rest)
            ELSE Out(op.result, op.me, Take(rest, 2) \o op.others, "withdraw", slice)

\* process_Deactivate dropping the operation's result: `let _ = me.deactivate_stake(..)`
process_Deactivate_result_dropped(me, rest) ==
    IF rest = <<>> THEN Bail(InvalidInstructionData, me, rest)
    ELSE LET clock == sysvar_clock_from_keyed_account(rest[1])
             slice == Drop(rest, 1)
             op == StakeAccount_deactivate_stake(me, clock.val, slice)
         IN IF ~clock.ok THEN Bail(clock.err, me, rest)
            ELSE Out(Ok, op.me, Take(rest, 1) \o op.others,
                     "deactivate_stake", slice)

\* process_Deactivate handing Clock::default() to the operation, whatever the
\* clock account holds
process_Deactivate_epoch_zero(me, rest) ==
    IF rest = <<>> THEN Bail(InvalidInstructionData, me, rest)
    ELSE LET clock == sysvar_clock_from_keyed_account(rest[1])
             slice == Drop(rest, 1)
             op == StakeAccount_deactivate_stake(me, ClockData(0, 0), slice)
         IN IF ~clock.ok THEN Bail(clock.err, me, rest)
            ELSE Out(op.result, op.me, Take(rest, 1) \o op.others,
                     "deactivate_stake", slice)

\* process_Deactivate falling back to Clock::default() when the account is no clock
process_Deactivate_default_clock(me, rest) ==
    IF rest = <<>> THEN Bail(InvalidInstructionData, me, rest)
    ELSE LET parsed == sysvar_clock_from_keyed_account(rest[1])
             clock == IF parsed.ok THEN parsed.val ELSE ClockData(0, 0)
             slice == Drop(rest, 1)
             op == StakeAccount_deactivate_stake(me, clock, slice)
         IN Out(op.result, op.me, Take(rest, 1) \o op.others,
                "deactivate_stake", slice)

process_Deactivate(me, rest) ==
    IF rest = <<>> THEN Bail(InvalidInstructionData, me, rest)
    ELSE LET clock == sysvar_clock_from_keyed_account(rest[1])
             slice == Drop(rest, 1)
             op == StakeAccount_deactivate_stake(me, clock.val, slice)
         IN IF ~clock.ok THEN Bail(clock.err, me, rest)
            ELSE Out(op.result, op.me, Take(rest, 1) \o op.others,
                     "deactivate_stake", slice)

\* the match on the decoded instruction
dispatch(me, rest, i) ==
    CASE i.tag = "Initialize" -> process_Initialize(me, rest, i.authorized, i.lockup)
      [] i.tag = "Authorize" -> process_Authorize(me, rest, i.pubkey, i.stake_authorize)
      [] i.tag = "DelegateStake" -> process_DelegateStake(me, rest)
      [] i.tag = "RedeemVoteCredits" -> process_RedeemVoteCredits(me, rest)
      [] i.tag = "Withdraw" -> process_Withdraw(me, rest, i.lamports)
      [] i.tag = "Deactivate" -> process_Deactivate(me, rest)

\* process_instruction without the is_empty check: split_at_mut(1) panics
process_instruction_unchecked(accounts, payload) ==
    IF accounts = <<>>
    THEN [result |-> Err("panic"), accounts |-> accounts,
          invoked |-> "none", handed |-> <<>>]
    ELSE LET me == accounts[1]
             rest == Tail(accounts)
             decoded == deserialize(payload)
         IN IF ~decoded.ok THEN Bail(InvalidInstructionData, me, rest)
            ELSE dispatch(me, rest, decoded.val)

process_instruction(accounts, payload) ==
    IF accounts = <<>>
    THEN [result |-> InvalidInstructionData, accounts |-> accounts,
          invoked |-> "none", handed |-> <<>>]
    ELSE LET me == accounts[1]
             rest == Tail(accounts)
             decoded == deserialize(payload)
         IN IF ~decoded.ok THEN Bail(InvalidInstructionData, me, rest)
            ELSE dispatch(me, rest, decoded.val)

----------------------------------------------------------------------------
(* The instruction builders *)

\* Instruction::new(id(), &instruction, account_metas)
Instruction_new(i, account_metas) ==
    [accounts |-> account_metas, data |-> serialize(i)]

create_stake_account_with_lockup(from_pubkey, stake_pubkey, authorized, lockup, lamports) ==
    << [system |-> "create_account", from |-> from_pubkey, to |-> stake_pubkey,
        lamports |-> lamports, space |-> STAKE_STATE_SIZE],
       Instruction_new(Initialize(authorized, lockup),
           << AccountMeta_new(stake_pubkey, FALSE),
              AccountMeta_new(sysvar_rent_id, FALSE) >>) >>

\* metas_for_authorized_signer pushing the signer before the other accounts
metas_for_authorized_signer_signer_first(account_pubkey, authorized_signer, other_params) ==
    LET is_own_signer == authorized_signer = account_pubkey
    IN <<AccountMeta_new(account_pubkey, is_own_signer)>>
         \o (IF ~is_own_signer
             THEN <<AccountMeta_new_credit_only(authorized_signer, TRUE)>>
             ELSE <<>>)
         \o other_params

\* for instructions whose authorized signer may differ from the account's pubkey
metas_for_authorized_signer(account_pubkey, authorized_signer, other_params) ==
    LET is_own_signer == authorized_signer = account_pubkey
    IN <<AccountMeta_new(account_pubkey, is_own_signer)>>
         \o other_params
         \o (IF ~is_own_signer
             THEN <<AccountMeta_new_credit_only(authorized_signer, TRUE)>>
             ELSE <<>>)

authorize(stake_pubkey, authorized_pubkey, new_authorized_pubkey, stake_authorize) ==
    Instruction_new(Authorize(new_authorized_pubkey, stake_authorize),
        metas_for_authorized_signer(stake_pubkey, authorized_pubkey, <<>>))

redeem_vote_credits(stake_pubkey, vote_pubkey) ==
    Instruction_new(RedeemVoteCredits,
        << AccountMeta_new(stake_pubkey, FALSE),
           AccountMeta_new_credit_only(vote_pubkey, FALSE),
           AccountMeta_new(rewards_pools_random_id, FALSE),
           AccountMeta_new_credit_only(sysvar_rewards_id, FALSE),
           AccountMeta_new_credit_only(sysvar_stake_history_id, FALSE) >>)

delegate_stake(stake_pubkey, authorized_pubkey, vote_pubkey) ==
    Instruction_new(DelegateStake,
        metas_for_authorized_signer(stake_pubkey, authorized_pubkey,
            << AccountMeta_new_credit_only(vote_pubkey, FALSE),
               AccountMeta_new_credit_only(sysvar_clock_id, FALSE),
               AccountMeta_new_credit_only(config_id, FALSE) >>))

withdraw(stake_pubkey, authorized_pubkey, to_pubkey, lamports) ==
    LET accounts ==
            << AccountMeta_new_credit_only(sysvar_clock_id, FALSE),
               AccountMeta_new_credit_only(sysvar_stake_history_id, FALSE) >>
            \o (IF to_pubkey # authorized_pubkey
                THEN <<AccountMeta_new_credit_only(to_pubkey, FALSE)>>
                ELSE <<>>)
    IN Instruction_new(Withdraw(lamports),
           metas_for_authorized_signer(stake_pubkey, authorized_pubkey, accounts))

deactivate_stake(stake_pubkey, authorized_pubkey) ==
    Instruction_new(Deactivate,
        metas_for_authorized_signer(stake_pubkey, authorized_pubkey,
            <<AccountMeta_new_credit_only(sysvar_clock_id, FALSE)>>))

----------------------------------------------------------------------------
(* The accounts and payloads the transactions of the model are made of *)

NoHistory == StakeHistoryData(<<>>)
\* a history with room for any delegation of the model to warm up in one epoch
AmpleHistory ==
    StakeHistoryData([e \in 1..2 |->
        [effective |-> 100000000, activating |-> 0, deactivating |-> 0]])

\* what the runtime holds under each key (the tests' process_instruction):
\* the sysvar and config accounts, and Account::default() for any other key
account_for(pubkey) ==
    CASE pubkey = sysvar_clock_id -> Account(1, ClockData(0, 0))
      [] pubkey = sysvar_rewards_id -> Account(1, RewardsData(0, 0))
      [] pubkey = sysvar_stake_history_id -> Account(1, NoHistory)
      [] pubkey = config_id -> Account(1, ConfigData)
      [] pubkey = sysvar_rent_id -> Account(1, RentData(DEFAULT_LAMPORTS_PER_BYTE))
      [] OTHER -> AccountDefault

Reserve == minimum_balance(DEFAULT_LAMPORTS_PER_BYTE, STAKE_STATE_SIZE)
\* the balance of the funded accounts: the reserve and the 7,717,120 to delegate
Funded == Reserve + 7717120

NoLockup == [unix_timestamp |-> 0, epoch |-> 0, custodian |-> Keys.custodian]
EpochLockup == [unix_timestamp |-> 0, epoch |-> 5, custodian |-> Keys.custodian]
\* the stake account is its own authority
MetaOwn ==
    [rent_exempt_reserve |-> Reserve,
     authorized |-> [staker |-> Keys.stake, withdrawer |-> Keys.stake],
     lockup |-> NoLockup]
\* another key is the authority, and a lockup is in force until epoch 5
MetaAuth ==
    [rent_exempt_reserve |-> Reserve,
     authorized |-> [staker |-> Keys.auth, withdrawer |-> Keys.auth],
     lockup |-> EpochLockup]

\* the same authority, under a lockup in force until the clock reads 10
MetaTimed ==
    [MetaAuth EXCEPT !.lockup =
        [unix_timestamp |-> 10, epoch |-> 0, custodian |-> Keys.custodian]]

Delegated(deactivation_epoch) ==
    [delegation |->
        [voter_pubkey |-> Keys.vote, stake |-> Funded - Reserve,
         activation_epoch |-> 1, deactivation_epoch |-> deactivation_epoch],
     credits_observed |-> 100]

\* the states a primary account is found in
PrimaryAccounts ==
    { AccountDefault,
      Account(1000000, StakeData(Uninitialized)),
      Account(Funded, StakeData(Uninitialized)),
      Account(Funded, StakeData(Initialized(MetaOwn))),
      Account(Funded, StakeData(Initialized(MetaAuth))),
      Account(Funded, StakeData(Initialized(MetaTimed))),
      Account(Funded + 42, StakeData(Stake(MetaOwn, Delegated(EPOCH_MAX)))),
      Account(Funded, StakeData(Stake(MetaAuth, Delegated(EPOCH_MAX)))),
      Account(Funded, StakeData(Stake(MetaOwn, Delegated(2)))),
      Account(Funded, StakeData(RewardsPool)) }

\* the accounts a position of an account list is filled with: first the one
\* the instruction designates for it, then the ones that do not belong there
Candidates(role) ==
    CASE role = "rent" ->
            { KeyedAccount(sysvar_rent_id, FALSE,
                           Account(1, RentData(DEFAULT_LAMPORTS_PER_BYTE))),
              \* rent five times as dear: the funded accounts are not exempt
              KeyedAccount(sysvar_rent_id, FALSE,
                           Account(1, RentData(5 * DEFAULT_LAMPORTS_PER_BYTE))),
              KeyedAccount(Keys.to, FALSE, AccountDefault),
              KeyedAccount(sysvar_rent_id, FALSE, Account(1, RewardsData(0, 0))) }
      [] role = "clock" ->
            { KeyedAccount(sysvar_clock_id, FALSE, Account(1, ClockData(3, 0))),
              KeyedAccount(Keys.to, FALSE, AccountDefault),
              KeyedAccount(sysvar_clock_id, FALSE, Account(1, RewardsData(0, 0))) }
      [] role = "config" ->
            { KeyedAccount(config_id, FALSE, Account(1, ConfigData)),
              KeyedAccount(Keys.to, FALSE, AccountDefault),
              KeyedAccount(config_id, FALSE, AccountDefault) }
      [] role = "rewards" ->
            { KeyedAccount(sysvar_rewards_id, FALSE, Account(1, RewardsData(3, 2))),
              KeyedAccount(sysvar_clock_id, FALSE, Account(1, ClockData(3, 0))),
              KeyedAccount(sysvar_rewards_id, FALSE, AccountDefault) }
      [] role = "stake_history" ->
            { KeyedAccount(sysvar_stake_history_id, FALSE, Account(1, AmpleHistory)),
              KeyedAccount(sysvar_rewards_id, FALSE, Account(1, RewardsData(3, 2))),
              KeyedAccount(sysvar_stake_history_id, FALSE, AccountDefault) }
      [] role = "vote" ->
            { KeyedAccount(Keys.vote, FALSE, Account(1, VoteData(150))),
              KeyedAccount(Keys.vote, FALSE, Account(1, VoteData(100))),
              KeyedAccount(Keys.vote, FALSE, AccountDefault) }
      [] role = "rewards_pool" ->
            { KeyedAccount(rewards_pools_random_id, FALSE,
                           Account(1000000000, StakeData(RewardsPool))),
              KeyedAccount(rewards_pools_random_id, FALSE, AccountDefault) }
      [] role = "to" ->
            { KeyedAccount(Keys.to, FALSE, AccountDefault),
              KeyedAccount(Keys.auth, TRUE, AccountDefault) }
      [] role = "extra" ->
            { KeyedAccount(Keys.auth, TRUE, AccountDefault),
              KeyedAccount(Keys.custodian, TRUE, AccountDefault),
              KeyedAccount(Keys.to, FALSE, AccountDefault) }

\* the accounts each variant designates after the primary one, in order
Designated(tag) ==
    CASE tag = "Initialize" -> <<"rent">>
      [] tag = "Authorize" -> <<>>
      [] tag = "DelegateStake" -> <<"vote", "clock", "config">>
      [] tag = "RedeemVoteCredits" ->
            <<"vote", "rewards_pool", "rewards", "stake_history">>
      [] tag = "Withdraw" -> <<"clock", "stake_history", "to">>
      [] tag = "Deactivate" -> <<"clock">>

RoleAt(roles, i) == IF i <= Len(roles) THEN roles[i] ELSE "extra"

RECURSIVE RestLists(_, _, _)
\* the lists of n - i + 1 accounts for the positions i..n of `roles`
RestLists(roles, i, n) ==
    IF i > n THEN {<<>>}
    ELSE {<<a>> \o t : a \in Candidates(RoleAt(roles, i)),
                       t \in RestLists(roles, i + 1, n)}

\* every account list for `roles`: cut short, complete, or with extra accounts
AccountLists(roles) ==
    {<<>>} \cup
    UNION {{<<KeyedAccount(Keys.stake, s, a)>> \o r :
                s \in BOOLEAN, a \in PrimaryAccounts, r \in RestLists(roles, 1, n)} :
           n \in 0..(Len(roles) + MaxExtra)}

SomeAuthorized == [staker |-> Keys.auth, withdrawer |-> Keys.stake]
\* a little, all that a funded account holds above its reserve, and too much
Amounts == {42, Funded - Reserve, 2 * Funded}

Instructions ==
    { Initialize(SomeAuthorized, NoLockup),
      Initialize(SomeAuthorized, EpochLockup),
      Authorize(Keys.to, "Staker"),
      Authorize(Keys.to, "Withdrawer"),
      DelegateStake, RedeemVoteCredits, Deactivate }
    \cup {Withdraw(a) : a \in Amounts}

\* the payloads: every encoding, the encodings with bytes after them, and
\* byte strings no instruction encodes to
Payloads ==
    {serialize(i) : i \in Instructions}
    \cup {serialize(i) \o <<0>> : i \in {Deactivate, Withdraw(42)}}
    \cup { <<>>, <<2, 0>>, ToLE(6, U32_BYTES), <<2, 1, 0, 0>>,
           Take(serialize(Withdraw(42)), U32_BYTES + U64_BYTES - 1),
           Take(serialize(Authorize(Keys.to, "Staker")), U32_BYTES + PUBKEY_BYTES),
           Take(serialize(Authorize(Keys.to, "Staker")), U32_BYTES + PUBKEY_BYTES)
               \o ToLE(2, U32_BYTES),
           Take(serialize(Initialize(SomeAuthorized, NoLockup)),
                U32_BYTES + 2 * PUBKEY_BYTES) }

\* the accounts a client sends along with a payload
RolesFor(payload) ==
    LET d == deserialize(payload)
    IN IF d.ok THEN Designated(d.val.tag) ELSE <<"clock">>

----------------------------------------------------------------------------
(* The ledger: the accounts the runtime holds under each key, its sysvars, *)
(* and the way it runs an instruction over them.                           *)

LedgerKeys ==
    {Keys.stake, Keys.auth, Keys.to, Keys.custodian, Keys.vote, Keys.vote2,
     rewards_pools_random_id}

\* a created stake account of the given balance, two vote accounts that have
\* earned credits, a funded rewards pool, and empty accounts for the other keys
InitialLedger(balance) ==
    [k \in LedgerKeys |->
        CASE k = Keys.stake -> Account(balance, StakeData(Uninitialized))
          [] k = Keys.vote -> Account(1, VoteData(100))
          [] k = Keys.vote2 -> Account(1, VoteData(50))
          [] k = rewards_pools_random_id -> Account(1000000000, StakeData(RewardsPool))
          [] OTHER -> AccountDefault]

\* the stake history the runtime has recorded by epoch e: room to warm up or
\* cool down any stake of the model within one epoch
RuntimeHistory(e) ==
    StakeHistoryData([x \in 0..(e - 1) |->
        [effective |-> 100000000, activating |-> 0, deactivating |-> 0]])

\* the account the runtime loads for a key at epoch e
runtime_account(l, e, pubkey) ==
    CASE pubkey = sysvar_clock_id -> Account(1, ClockData(e, e))
      [] pubkey = sysvar_rewards_id -> Account(1, RewardsData(e, 1))
      [] pubkey = sysvar_stake_history_id -> Account(1, RuntimeHistory(e))
      [] pubkey = config_id -> Account(1, ConfigData)
      [] pubkey = sysvar_rent_id -> Account(1, RentData(DEFAULT_LAMPORTS_PER_BYTE))
      [] OTHER -> l[pubkey]

\* the keyed accounts of an instruction, loaded from the ledger
Loaded(l, e, ins) ==
    [i \in 1..Len(ins.accounts) |->
        KeyedAccount(ins.accounts[i].pubkey, ins.accounts[i].is_signer,
                     runtime_account(l, e, ins.accounts[i].pubkey))]

\* the ledger after an instruction: what it wrote is kept if it succeeded,
\* and dropped if it failed
Committed(l, out) ==
    IF ~out.result.ok THEN l
    ELSE [k \in DOMAIN l |->
            IF \E i \in DOMAIN out.accounts : out.accounts[i].key = k
            THEN out.accounts[CHOOSE i \in DOMAIN out.accounts :
                                  out.accounts[i].key = k].account
            ELSE l[k]]

----------------------------------------------------------------------------
(* The transaction *)

Pending == Err("pending")
NoInstruction == [accounts |-> <<>>, data |-> <<>>]
Returns(v) == [returns |-> "value", value |-> v]
Panics == [returns |-> "panic"]

\* the members of StakeError
StakeErrors == {"NoCreditsToRedeem", "LockupInForce"}
None == "None"
\* StakeError numbered from 1
StakeError_from_u32_one_based(n) ==
    CASE n = 1 -> "NoCreditsToRedeem" [] n = 2 -> "LockupInForce" [] OTHER -> None
\* the derived FromPrimitive: the member of that number, if there is one
StakeError_from_u32(n) ==
    CASE n = 0 -> "NoCreditsToRedeem" [] n = 1 -> "LockupInForce" [] OTHER -> None
\* impl Display for StakeError
StakeError_fmt(e) ==
    CASE e = "NoCreditsToRedeem" -> "not enough credits to redeem"
      [] e = "LockupInForce" -> "lockup has not yet expired"
\* the tests' pretty_err::<StakeError>: the error, the type, the member decoded
\* from the code (unwrap: a panic if there is none) and its message
pretty_err(err) ==
    IF err.err # "CustomError" THEN Returns(<<>>)
    ELSE LET specific_error == StakeError_from_u32(err.code)
         IN IF specific_error = None THEN Panics
            ELSE Returns(<<err, "StakeError", specific_error,
                           StakeError_fmt(specific_error)>>)

----------------------------------------------------------------------------
(* sdk/program/src/borsh0_10.rs: the packed length of a BorshSchema type.  *)
(* A schema container is a declaration (the type's name) and the           *)
(* definitions of the declarations that are not primitive.                 *)

\* the arm `None => match declaration`: the width of a primitive
primitive_len(declaration) ==
    CASE declaration \in {"bool", "u8", "i8"} -> Returns(1)
      [] declaration \in {"u16", "i16"} -> Returns(2)
      [] declaration \in {"u32", "i32"} -> Returns(4)
      [] declaration \in {"u64", "i64"} -> Returns(8)
      [] declaration \in {"u128", "i128"} -> Returns(16)
      [] declaration = "nil" -> Returns(0)
      [] OTHER -> Panics

RECURSIVE get_declaration_packed_len(_, _)
get_declaration_packed_len(declaration, definitions) ==
    LET len(d) == get_declaration_packed_len(d, definitions)
        panics(ds) == \E i \in DOMAIN ds : len(ds[i]) = Panics
        RECURSIVE sum(_)
        sum(ds) == IF ds = <<>> THEN 0 ELSE len(Head(ds)).value + sum(Tail(ds))
        RECURSIVE max(_)
        \* .max().unwrap_or(0)
        max(ds) ==
            IF ds = <<>> THEN 0
            ELSE IF len(Head(ds)).value > max(Tail(ds)) THEN len(Head(ds)).value
            ELSE max(Tail(ds))
    IN IF declaration \notin DOMAIN definitions THEN primitive_len(declaration)
       ELSE LET def == definitions[declaration]
            IN CASE def.kind = "Array" ->
                       IF len(def.elements) = Panics THEN Panics
                       ELSE Returns(def.length * len(def.elements).value)
                 [] def.kind = "Enum" ->
                       IF panics(def.variants) THEN Panics
                       ELSE Returns(1 + max(def.variants))
                 [] def.kind = "Struct" ->
                       IF panics(def.fields) THEN Panics ELSE Returns(sum(def.fields))
                 [] def.kind = "Sequence" -> Panics
                 [] def.kind = "Tuple" ->
                       IF panics(def.elements) THEN Panics
                       ELSE Returns(sum(def.elements))

\* the definitions are copied into a fresh hashbrown map, one insert each with
\* its return value unwrapped.  HashMap::insert returns the value the key held
\* before: None for a key the map does not hold, and the keys of the
\* definitions are distinct, so the first insert returns None and unwrap panics
get_packed_len(schema_container) ==
    LET definitions == schema_container.definitions
        RECURSIVE copy(_, _)
        \* the copy of the definitions `todo` into `map`, or Panics
        copy(map, todo) ==
            IF todo = {} THEN Returns(map)
            ELSE LET decl == CHOOSE d \in todo : TRUE
                     previous == IF decl \in DOMAIN map THEN map[decl] ELSE None
                 IN IF previous = None THEN Panics
                    ELSE copy([d \in DOMAIN map \cup {decl} |-> definitions[d]],
                              todo \ {decl})
        hashbrown_definitions == copy(<<>>, DOMAIN definitions)
    IN IF hashbrown_definitions = Panics THEN Panics
       ELSE get_declaration_packed_len(schema_container.declaration,
                                       hashbrown_definitions.value)

Array(length, elements) == [kind |-> "Array", length |-> length, elements |-> elements]
Fields(kind, declarations) == [kind |-> kind, fields |-> declarations]
SchemaContainer(declaration, definitions) ==
    [declaration |-> declaration, definitions |-> definitions]

\* S::schema_container() of primitives, an array, a tuple, structs and enums
Schemas ==
    { SchemaContainer(p, <<>>) : p \in {"bool", "u8", "u16", "u32", "u64", "u128", "nil"} }
    \cup { SchemaContainer("Array<u8, 32>", [d \in {"Array<u8, 32>"} |-> Array(32, "u8")]),
           SchemaContainer("Tuple<u16, u32>",
               [d \in {"Tuple<u16, u32>"} |->
                   [kind |-> "Tuple", elements |-> <<"u16", "u32">>]]),
           SchemaContainer("Unit", [d \in {"Unit"} |-> Fields("Struct", <<>>)]),
           SchemaContainer("Lockup",
               [d \in {"Lockup", "Array<u8, 32>"} |->
                   IF d = "Lockup" THEN Fields("Struct", <<"i64", "u64", "Array<u8, 32>">>)
                   ELSE Array(32, "u8")]),
           SchemaContainer("Option<u64>",
               [d \in {"Option<u64>"} |->
                   [kind |-> "Enum", variants |-> <<"nil", "u64">>]]),
           SchemaContainer("Either",
               [d \in {"Either", "Lockup", "Array<u8, 32>"} |->
                   CASE d = "Either" -> [kind |-> "Enum", variants |-> <<"u8", "Lockup">>]
                     [] d = "Lockup" ->
                           Fields("Struct", <<"i64", "u64", "Array<u8, 32>">>)
                     [] OTHER -> Array(32, "u8")]) }

\* no function is being called
NoCall == [fn |-> "none"]
NotReturned == [returns |-> "nothing"]
BuilderArgs(stake, authorized, to) ==
    [stake |-> stake, authorized |-> authorized, to |-> to]

Init ==
    /\ pc = "client"
    /\ builder = "none"
    /\ bargs = BuilderArgs(0, 0, 0)
    /\ instruction = NoInstruction
    /\ keyed_accounts = <<>>
    /\ pre_accounts = <<>>
    /\ data = <<>>
    /\ result = Pending
    /\ invoked = "none"
    /\ handed = <<>>
    /\ ledger = InitialLedger(Funded)
    /\ current_epoch = 0
    /\ was_initialized = FALSE
    /\ withdrew = FALSE
    /\ call = NoCall
    /\ returned = NotReturned

BuildInitialize ==
    /\ pc = "client"
    /\ \E stake \in UserKeys, lockup \in {NoLockup, EpochLockup} :
        /\ instruction' = create_stake_account_with_lockup(
                              Keys.to, stake, SomeAuthorized, lockup, Funded)[2]
        /\ bargs' = BuilderArgs(stake, stake, stake)
    /\ builder' = "create_stake_account_with_lockup"
    /\ pc' = "built"
    /\ UNCHANGED ledger_vars
    /\ UNCHANGED <<keyed_accounts, pre_accounts, data, result, invoked, handed>>
    /\ UNCHANGED fn_vars

BuildAuthorize ==
    /\ pc = "client"
    /\ \E stake \in UserKeys, authorized \in UserKeys,
          role \in {"Staker", "Withdrawer"} :
        /\ instruction' = authorize(stake, authorized, Keys.to, role)
        /\ bargs' = BuilderArgs(stake, authorized, stake)
    /\ builder' = "authorize"
    /\ pc' = "built"
    /\ UNCHANGED ledger_vars
    /\ UNCHANGED <<keyed_accounts, pre_accounts, data, result, invoked, handed>>
    /\ UNCHANGED fn_vars

BuildRedeemVoteCredits ==
    /\ pc = "client"
    /\ \E stake \in UserKeys :
        /\ instruction' = redeem_vote_credits(stake, Keys.vote)
        /\ bargs' = BuilderArgs(stake, stake, stake)
    /\ builder' = "redeem_vote_credits"
    /\ pc' = "built"
    /\ UNCHANGED ledger_vars
    /\ UNCHANGED <<keyed_accounts, pre_accounts, data, result, invoked, handed>>
    /\ UNCHANGED fn_vars

BuildDelegateStake ==
    /\ pc = "client"
    /\ \E stake \in UserKeys, authorized \in UserKeys :
        /\ instruction' = delegate_stake(stake, authorized, Keys.vote)
        /\ bargs' = BuilderArgs(stake, authorized, stake)
    /\ builder' = "delegate_stake"
    /\ pc' = "built"
    /\ UNCHANGED ledger_vars
    /\ UNCHANGED <<keyed_accounts, pre_accounts, data, result, invoked, handed>>
    /\ UNCHANGED fn_vars

BuildWithdraw ==
    /\ pc = "client"
    /\ \E stake \in UserKeys, authorized \in UserKeys, to \in UserKeys,
          lamports \in Amounts :
        /\ instruction' = withdraw(stake, authorized, to, lamports)
        /\ bargs' = BuilderArgs(stake, authorized, to)
    /\ builder' = "withdraw"
    /\ pc' = "built"
    /\ UNCHANGED ledger_vars
    /\ UNCHANGED <<keyed_accounts, pre_accounts, data, result, invoked, handed>>
    /\ UNCHANGED fn_vars

BuildDeactivateStake ==
    /\ pc = "client"
    /\ \E stake \in UserKeys, authorized \in UserKeys :
        /\ instruction' = deactivate_stake(stake, authorized)
        /\ bargs' = BuilderArgs(stake, authorized, stake)
    /\ builder' = "deactivate_stake"
    /\ pc' = "built"
    /\ UNCHANGED ledger_vars
    /\ UNCHANGED <<keyed_accounts, pre_accounts, data, result, invoked, handed>>
    /\ UNCHANGED fn_vars

\* the runtime loads the accounts the instruction names
LoadAccounts ==
    /\ pc = "built"
    /\ \E primary \in PrimaryAccounts :
        /\ keyed_accounts' =
              [i \in 1..Len(instruction.accounts) |->
                  KeyedAccount(instruction.accounts[i].pubkey,
                               instruction.accounts[i].is_signer,
                               IF i = 1 THEN primary
                               ELSE account_for(instruction.accounts[i].pubkey))]
        /\ pre_accounts' = keyed_accounts'
    /\ data' = instruction.data
    /\ pc' = "ready"
    /\ UNCHANGED ledger_vars
    /\ UNCHANGED <<builder, bargs, instruction, result, invoked, handed>>
    /\ UNCHANGED fn_vars

\* a client hands over a payload and an account list of its own making
SubmitRaw ==
    /\ pc = "client"
    /\ \E payload \in Payloads :
        \E accounts \in AccountLists(RolesFor(payload)) :
            /\ data' = payload
            /\ keyed_accounts' = accounts
            /\ pre_accounts' = accounts
    /\ builder' = "raw"
    /\ pc' = "ready"
    /\ UNCHANGED ledger_vars
    /\ UNCHANGED <<bargs, instruction, result, invoked, handed>>
    /\ UNCHANGED fn_vars

Process ==
    /\ pc = "ready"
    /\ LET out == process_instruction(keyed_accounts, data)
       IN /\ keyed_accounts' = out.accounts
          /\ result' = out.result
          /\ invoked' = out.invoked
          /\ handed' = out.handed
    /\ pc' = "done"
    /\ UNCHANGED ledger_vars
    /\ UNCHANGED <<builder, bargs, instruction, pre_accounts, data>>
    /\ UNCHANGED fn_vars

Next ==
    \/ BuildInitialize
    \/ BuildAuthorize
    \/ BuildRedeemVoteCredits
    \/ BuildDelegateStake
    \/ BuildWithdraw
    \/ BuildDeactivateStake
    \/ LoadAccounts
    \/ SubmitRaw
    \/ Process

Spec == Init /\ [][Next]_vars

----------------------------------------------------------------------------
(* The ledger's transactions.  Each is one instruction, made by its        *)
(* builder, loaded from the ledger, run by process_instruction and         *)
(* committed; between them the epochs pass and the vote accounts earn      *)
(* credits.                                                                *)

\* the authorities an Initialize of the ledger names
LedgerAuthorized ==
    { [staker |-> Keys.stake, withdrawer |-> Keys.stake], SomeAuthorized }
Signers == {Keys.stake, Keys.auth}
Voters == {Keys.vote, Keys.vote2}
\* the amount a Withdraw of the ledger asks for: all that an account funded
\* by create_stake_account holds above its reserve
LedgerAmount == Funded - Reserve
\* the times the vote accounts have earned credits
Earned(l) ==
    (l[Keys.vote].data.credits - InitialLedger(Funded)[Keys.vote].data.credits)
    + (l[Keys.vote2].data.credits - InitialLedger(Funded)[Keys.vote2].data.credits)

LedgerInit ==
    /\ pc = "ledger"
    /\ builder = "none"
    /\ bargs = BuilderArgs(0, 0, 0)
    /\ instruction = NoInstruction
    /\ keyed_accounts = <<>>
    /\ pre_accounts = <<>>
    /\ data = <<>>
    /\ result = Pending
    /\ invoked = "none"
    /\ handed = <<>>
    /\ \E balance \in {1000000, Funded} : ledger = InitialLedger(balance)
    /\ current_epoch = 0
    /\ was_initialized = FALSE
    /\ withdrew = FALSE
    /\ call = NoCall
    /\ returned = NotReturned

TxInitialize ==
    /\ pc = "ledger"
    /\ \E authorized \in LedgerAuthorized, lockup \in {NoLockup, EpochLockup} :
        \E ins \in {create_stake_account_with_lockup(
                       Keys.to, Keys.stake, authorized, lockup, Funded)[2]} :
        \E loaded \in {Loaded(ledger, current_epoch, ins)} :
        \E out \in {process_instruction(loaded, ins.data)} :
        \E kept \in {Committed(ledger, out)} :
           /\ instruction' = ins
           /\ pre_accounts' = loaded
           /\ keyed_accounts' = out.accounts
           /\ data' = ins.data
           /\ result' = out.result
           /\ invoked' = out.invoked
           /\ handed' = out.handed
           /\ ledger' = kept
           /\ bargs' = BuilderArgs(Keys.stake, Keys.stake, Keys.stake)
           /\ was_initialized' = (was_initialized \/ out.result.ok)
    /\ builder' = "create_stake_account_with_lockup"
    /\ pc' = "ran"
    /\ UNCHANGED <<current_epoch, withdrew>>
    /\ UNCHANGED fn_vars

TxAuthorize ==
    /\ pc = "ledger"
    /\ \E signer \in Signers, role \in {"Staker", "Withdrawer"} :
        \E ins \in {authorize(Keys.stake, signer, Keys.auth, role)} :
        \E loaded \in {Loaded(ledger, current_epoch, ins)} :
        \E out \in {process_instruction(loaded, ins.data)} :
        \E kept \in {Committed(ledger, out)} :
           /\ instruction' = ins
           /\ pre_accounts' = loaded
           /\ keyed_accounts' = out.accounts
           /\ data' = ins.data
           /\ result' = out.result
           /\ invoked' = out.invoked
           /\ handed' = out.handed
           /\ ledger' = kept
           /\ bargs' = BuilderArgs(Keys.stake, signer, Keys.stake)
    /\ builder' = "authorize"
    /\ pc' = "ran"
    /\ UNCHANGED <<current_epoch, was_initialized, withdrew>>
    /\ UNCHANGED fn_vars

TxDelegateStake ==
    /\ pc = "ledger"
    /\ \E signer \in Signers, vote \in Voters :
        \E ins \in {delegate_stake(Keys.stake, signer, vote)} :
        \E loaded \in {Loaded(ledger, current_epoch, ins)} :
        \E out \in {process_instruction(loaded, ins.data)} :
        \E kept \in {Committed(ledger, out)} :
           /\ instruction' = ins
           /\ pre_accounts' = loaded
           /\ keyed_accounts' = out.accounts
           /\ data' = ins.data
           /\ result' = out.result
           /\ invoked' = out.invoked
           /\ handed' = out.handed
           /\ ledger' = kept
           /\ bargs' = BuilderArgs(Keys.stake, signer, Keys.stake)
           \* a fresh delegation stakes what the account holds now
           /\ withdrew' = (withdrew /\ ~(out.result.ok /\ out.accounts[1] # loaded[1]))
    /\ builder' = "delegate_stake"
    /\ pc' = "ran"
    /\ UNCHANGED <<current_epoch, was_initialized>>
    /\ UNCHANGED fn_vars

TxRedeemVoteCredits ==
    /\ pc = "ledger"
    /\ \E vote \in Voters :
        \E ins \in {redeem_vote_credits(Keys.stake, vote)} :
        \E loaded \in {Loaded(ledger, current_epoch, ins)} :
        \E out \in {process_instruction(loaded, ins.data)} :
        \E kept \in {Committed(ledger, out)} :
           /\ instruction' = ins
           /\ pre_accounts' = loaded
           /\ keyed_accounts' = out.accounts
           /\ data' = ins.data
           /\ result' = out.result
           /\ invoked' = out.invoked
           /\ handed' = out.handed
           /\ ledger' = kept
           /\ bargs' = BuilderArgs(Keys.stake, Keys.stake, Keys.stake)
    /\ builder' = "redeem_vote_credits"
    /\ pc' = "ran"
    /\ UNCHANGED <<current_epoch, was_initialized, withdrew>>
    /\ UNCHANGED fn_vars

TxWithdraw ==
    /\ pc = "ledger"
    /\ \E signer \in Signers, lamports \in {LedgerAmount} :
        \E ins \in {withdraw(Keys.stake, signer, Keys.to, lamports)} :
        \E loaded \in {Loaded(ledger, current_epoch, ins)} :
        \E out \in {process_instruction(loaded, ins.data)} :
        \E kept \in {Committed(ledger, out)} :
           /\ instruction' = ins
           /\ pre_accounts' = loaded
           /\ keyed_accounts' = out.accounts
           /\ data' = ins.data
           /\ result' = out.result
           /\ invoked' = out.invoked
           /\ handed' = out.handed
           /\ ledger' = kept
           /\ bargs' = BuilderArgs(Keys.stake, signer, Keys.to)
           /\ withdrew' = (withdrew \/ out.result.ok)
    /\ builder' = "withdraw"
    /\ pc' = "ran"
    /\ UNCHANGED <<current_epoch, was_initialized>>
    /\ UNCHANGED fn_vars

TxDeactivateStake ==
    /\ pc = "ledger"
    /\ \E signer \in Signers :
        \E ins \in {deactivate_stake(Keys.stake, signer)} :
        \E loaded \in {Loaded(ledger, current_epoch, ins)} :
        \E out \in {process_instruction(loaded, ins.data)} :
        \E kept \in {Committed(ledger, out)} :
           /\ instruction' = ins
           /\ pre_accounts' = loaded
           /\ keyed_accounts' = out.accounts
           /\ data' = ins.data
           /\ result' = out.result
           /\ invoked' = out.invoked
           /\ handed' = out.handed
           /\ ledger' = kept
           /\ bargs' = BuilderArgs(Keys.stake, signer, Keys.stake)
    /\ builder' = "deactivate_stake"
    /\ pc' = "ran"
    /\ UNCHANGED <<current_epoch, was_initialized, withdrew>>
    /\ UNCHANGED fn_vars

\* the result has gone back to the client: the ledger awaits the next instruction
Settle ==
    /\ pc = "ran"
    /\ pc' = "ledger"
    /\ builder' = "none"
    /\ bargs' = BuilderArgs(0, 0, 0)
    /\ instruction' = NoInstruction
    /\ keyed_accounts' = <<>>
    /\ pre_accounts' = <<>>
    /\ data' = <<>>
    /\ result' = Pending
    /\ invoked' = "none"
    /\ handed' = <<>>
    /\ UNCHANGED ledger_vars
    /\ UNCHANGED fn_vars

\* the cluster enters the next epoch
AdvanceEpoch ==
    /\ pc = "ledger"
    /\ current_epoch < MaxEpoch
    /\ current_epoch' = current_epoch + 1
    /\ UNCHANGED <<pc, builder, bargs, instruction, keyed_accounts, pre_accounts,
                   data, result, invoked, handed, ledger, was_initialized, withdrew>>
    /\ UNCHANGED fn_vars

\* a vote account earns credits: its counter only ever grows
EarnCredits ==
    /\ pc = "ledger"
    /\ \E vote \in Voters :
        /\ Earned(ledger) < MaxVotes
        /\ ledger' = [ledger EXCEPT ![vote].data.credits = @ + 1]
    /\ UNCHANGED <<pc, builder, bargs, instruction, keyed_accounts, pre_accounts,
                   data, result, invoked, handed, current_epoch, was_initialized,
                   withdrew>>
    /\ UNCHANGED fn_vars

LedgerNext ==
    \/ TxInitialize
    \/ TxAuthorize
    \/ TxDelegateStake
    \/ TxRedeemVoteCredits
    \/ TxWithdraw
    \/ TxDeactivateStake
    \/ Settle
    \/ AdvanceEpoch
    \/ EarnCredits

SpecLedger == LedgerInit /\ [][LedgerNext]_vars

----------------------------------------------------------------------------
(* The functions: one call of a pure function of the program *)

\* a stake history of the epochs 0..LastEpoch, each with the cluster-wide
\* effective stake `total` and nothing activating or deactivating
History(total) ==
    StakeHistoryData([e \in 0..LastEpoch |->
        [effective |-> total, activating |-> 0, deactivating |-> 0]])
\* cluster totals: none, one that lets 2,000,000 lamports warm up an epoch,
\* and one that lets any delegation of the model warm up in one epoch
Totals == {0, 8000000, 100000000}

\* the calls of the warmup/cooldown calculator
StakeCalls ==
    { [fn |-> "stake",
       delegation |-> [voter_pubkey |-> Keys.vote, stake |-> amount,
                       activation_epoch |-> a, deactivation_epoch |-> d],
       epoch |-> e,
       total |-> total] :
        amount \in {1, Funded - Reserve}, a \in {0, 10}, d \in {EPOCH_MAX, 12},
        e \in 0..LastEpoch, total \in Totals }

\* the errors pretty_err is called with: each StakeError converted into an
\* InstructionError, custom codes no StakeError has, and another error
ErrorCalls ==
    { [fn |-> "pretty_err", err |-> err] :
        err \in {StakeErrorInto(e) : e \in StakeErrors}
                 \cup {CustomError(2), CustomError(3), InvalidArgument} }

\* instructions of every variant: the ones the transactions of the model carry,
\* and others that differ from them in one field
CodecInstructions ==
    Instructions
    \cup {Withdraw(a) : a \in {0, 255, 256, 2147483647}}
    \cup {Authorize(k, role) : k \in {0, Keys.auth}, role \in {"Staker", "Withdrawer"}}
    \cup {Initialize(a, l) :
             a \in {SomeAuthorized, [staker |-> Keys.stake, withdrawer |-> Keys.auth]},
             l \in {NoLockup, [unix_timestamp |-> 10, epoch |-> 0, custodian |-> Keys.to],
                    [unix_timestamp |-> 0, epoch |-> 10, custodian |-> Keys.to]}}
\* the instructions encoded and decoded again
CodecCalls == {[fn |-> "deserialize", instruction |-> i] : i \in CodecInstructions}

Calls ==
    StakeCalls \cup ErrorCalls \cup CodecCalls
    \cup {[fn |-> "get_packed_len", schema |-> schema] : schema \in Schemas}

FnInit ==
    /\ pc = "call"
    /\ builder = "none"
    /\ bargs = BuilderArgs(0, 0, 0)
    /\ instruction = NoInstruction
    /\ keyed_accounts = <<>>
    /\ pre_accounts = <<>>
    /\ data = <<>>
    /\ result = Pending
    /\ invoked = "none"
    /\ handed = <<>>
    /\ ledger = InitialLedger(Funded)
    /\ current_epoch = 0
    /\ was_initialized = FALSE
    /\ withdrew = FALSE
    /\ call \in Calls
    /\ returned = NotReturned

\* the effective stake of a delegation at an epoch
CallStake ==
    /\ pc = "call"
    /\ call.fn = "stake"
    /\ returned' = Returns(effective_stake(call.delegation, call.epoch,
                                           History(call.total).entries))
    /\ pc' = "returned"
    /\ UNCHANGED <<builder, bargs, instruction, keyed_accounts, pre_accounts,
                   data, result, invoked, handed, call>>
    /\ UNCHANGED ledger_vars

\* an InstructionError decoded back into a StakeError and put into words
CallPrettyErr ==
    /\ pc = "call"
    /\ call.fn = "pretty_err"
    /\ returned' = pretty_err(call.err)
    /\ pc' = "returned"
    /\ UNCHANGED <<builder, bargs, instruction, keyed_accounts, pre_accounts,
                   data, result, invoked, handed, call>>
    /\ UNCHANGED ledger_vars

\* an instruction through bincode::serialize and bincode::deserialize
CallDeserialize ==
    /\ pc = "call"
    /\ call.fn = "deserialize"
    /\ data' = serialize(call.instruction)
    /\ returned' = Returns(deserialize(data'))
    /\ pc' = "returned"
    /\ UNCHANGED <<builder, bargs, instruction, keyed_accounts, pre_accounts,
                   result, invoked, handed, call>>
    /\ UNCHANGED ledger_vars

\* get_packed_len::<S>()
CallGetPackedLen ==
    /\ pc = "call"
    /\ call.fn = "get_packed_len"
    /\ returned' = get_packed_len(call.schema)
    /\ pc' = "returned"
    /\ UNCHANGED <<builder, bargs, instruction, keyed_accounts, pre_accounts,
                   data, result, invoked, handed, call>>
    /\ UNCHANGED ledger_vars

FnNext ==
    \/ CallStake
    \/ CallPrettyErr
    \/ CallDeserialize
    \/ CallGetPackedLen

SpecFunctions == FnInit /\ [][FnNext]_vars

----------------------------------------------------------------------------
(* What the claims speak of *)

Done == pc = "done"
BuilderMade == builder \notin {"none", "raw"}
\* the instruction the payload of the call decodes to
decoded == deserialize(data)
Decodes(tag) == decoded.ok /\ decoded.val.tag = tag
\* the accounts after the primary one, as they were handed in
rest_in == IF pre_accounts = <<>> THEN <<>> ELSE Tail(pre_accounts)

\* the number of accounts the dispatcher is said to require after the primary one
MinExtra(tag) ==
    CASE tag = "Initialize" -> 1
      [] tag = "Authorize" -> 0
      [] tag = "DelegateStake" -> 3
      [] tag = "RedeemVoteCredits" -> 4
      [] tag = "Withdraw" -> 3
      [] tag = "Deactivate" -> 1

TooFew == decoded.ok /\ Len(rest_in) < MinExtra(decoded.val.tag)

\* the account at position i (after the primary one) is there and is not the
\* sysvar or config account `id` holding a `kind`
Rejected(i, id, kind) ==
    Len(rest_in) >= i /\ ~from_keyed_account(rest_in[i], id, kind).ok
WrongId(i, id) == Len(rest_in) >= i /\ rest_in[i].key # id
Valid(i, id, kind) ==
    Len(rest_in) >= i /\ from_keyed_account(rest_in[i], id, kind).ok

\* a payload no prefix of which encodes an instruction: it ends before the
\* variant index or before the variant's fields do, or an index is unknown
Malformed(b) ==
    \/ Len(b) < U32_BYTES
    \/ LET idx == FromLE(Take(b, U32_BYTES))
           n == Len(b) - U32_BYTES
       IN \/ idx > 5
          \/ idx = 0 /\ n < 3 * PUBKEY_BYTES + 2 * U64_BYTES
          \/ idx = 1 /\ n < PUBKEY_BYTES + U32_BYTES
          \/ idx = 1 /\ FromLE(SubSeq(b, U32_BYTES + PUBKEY_BYTES + 1,
                                      2 * U32_BYTES + PUBKEY_BYTES)) > 1
          \/ idx = 4 /\ n < U64_BYTES

\* the payload is the byte form of an instruction
IsEncoding(b) == deserialize(b).ok /\ serialize(deserialize(b).val) = b

----------------------------------------------------------------------------
C2_EmptyAccountList ==
    (Done /\ pre_accounts = <<>>)
        => (result = InvalidInstructionData /\ invoked = "none"
            /\ keyed_accounts = <<>>)

C2_Witness ==
    Done /\ pre_accounts = <<>> /\ ~decoded.ok /\ result = InvalidInstructionData

(* C3, as claimed: over a non-empty account list every payload that is not *)
(* the encoding of an instruction is answered InvalidInstructionData and   *)
(* no operation is called.                                                 *)
C3_NotAnEncodingFails ==
    (Done /\ pre_accounts # <<>> /\ ~IsEncoding(data))
        => (result = InvalidInstructionData /\ invoked = "none")

(* C3, amended: over a non-empty account list every payload no prefix of   *)
(* which is the encoding of an instruction is answered                     *)
(* InvalidInstructionData and no operation is called.                      *)
C3_MalformedFails ==
    (Done /\ pre_accounts # <<>> /\ Malformed(data))
        => (result = InvalidInstructionData /\ invoked = "none"
            /\ keyed_accounts = pre_accounts)

\* an unknown variant index, over accounts a Deactivate would have run on
C3_Witness ==
    /\ Done /\ Malformed(data) /\ Len(data) >= U32_BYTES
    /\ Len(rest_in) >= 1 /\ Valid(1, sysvar_clock_id, "clock")
    /\ result = InvalidInstructionData

(* C4, as claimed: RedeemVoteCredits is rejected for its account count     *)
(* exactly when fewer than 4 accounts follow the primary one.              *)
C4_RedeemAtLeastFour ==
    (Done /\ pre_accounts # <<>> /\ Decodes("RedeemVoteCredits"))
        => ((result = InvalidInstructionData) <=> (Len(rest_in) < 4))

(* C4, amended: RedeemVoteCredits is rejected for its account count        *)
(* exactly when the number of accounts after the primary one is not 4.     *)
C4_RedeemExactlyFour ==
    (Done /\ pre_accounts # <<>> /\ Decodes("RedeemVoteCredits"))
        => ((result = InvalidInstructionData) <=> (Len(rest_in) # 4))

\* five accounts after the primary one, the four designated ones all valid
C4_Witness ==
    /\ Done /\ Decodes("RedeemVoteCredits") /\ Len(rest_in) = 5
    /\ Valid(3, sysvar_rewards_id, "rewards")
    /\ Valid(4, sysvar_stake_history_id, "stake_history")
    /\ result = InvalidInstructionData

(* C5, as claimed: process_instruction never answers a builder-made       *)
(* instruction InvalidInstructionData: its payload decodes and it carries  *)
(* the accounts its variant requires, for every choice of keys.            *)
C5_BuilderMadeHasArity ==
    (Done /\ BuilderMade) => result # InvalidInstructionData

\* the designated positions of a builder-made account list hold the ids the
\* dispatcher reads there (index 0 of the code is index 1 here)
PositionsHold ==
    LET m == instruction.accounts
        At(i, key) == Len(m) >= i /\ m[i].pubkey = key
    IN CASE builder = "create_stake_account_with_lockup" -> At(2, sysvar_rent_id)
         [] builder = "delegate_stake" ->
               At(2, Keys.vote) /\ At(3, sysvar_clock_id) /\ At(4, config_id)
         [] builder = "redeem_vote_credits" ->
               /\ At(2, Keys.vote) /\ At(3, rewards_pools_random_id)
               /\ At(4, sysvar_rewards_id) /\ At(5, sysvar_stake_history_id)
         [] builder = "withdraw" ->
               /\ At(2, sysvar_clock_id) /\ At(3, sysvar_stake_history_id)
               /\ (bargs.to # bargs.authorized => At(4, bargs.to))
         [] builder = "deactivate_stake" -> At(2, sysvar_clock_id)
         [] OTHER -> TRUE

\* the primary account holds the rent-exempt minimum of its size
PrimaryRentExempt ==
    pre_accounts[1].account.lamports
        >= minimum_balance(DEFAULT_LAMPORTS_PER_BYTE, pre_accounts[1].account.data.len)

(* C6, as claimed: every designated position of a builder-made instruction *)
(* holds the matching id, and so the instruction, run against the sysvar   *)
(* and config accounts of the runtime (and, for Initialize, a rent-exempt  *)
(* primary account), passes the dispatcher's checks and reaches the        *)
(* state-machine operation.                                                *)
C6_BuilderMadeReachesOperation ==
    /\ BuilderMade => PositionsHold
    /\ (/\ Done /\ BuilderMade
        /\ builder = "create_stake_account_with_lockup" => PrimaryRentExempt)
            => invoked # "none"

\* the indices of the metas flagged as signer
SignerIndices == {i \in DOMAIN instruction.accounts : instruction.accounts[i].is_signer}

(* C7: an instruction built by authorize, delegate_stake, withdraw or      *)
(* deactivate_stake flags exactly one meta as signer, its key is the       *)
(* authorized key, and it is the primary account when the authorized key   *)
(* is the stake account's, and otherwise the last account, the primary one *)
(* not being flagged.                                                      *)
C7_OneAuthorizedSigner ==
    builder \in {"authorize", "delegate_stake", "withdraw", "deactivate_stake"}
        => /\ Cardinality(SignerIndices) = 1
           /\ \A i \in SignerIndices : instruction.accounts[i].pubkey = bargs.authorized
           /\ instruction.accounts[1].pubkey = bargs.stake
           /\ IF bargs.authorized = bargs.stake
              THEN SignerIndices = {1}
              ELSE SignerIndices = {Len(instruction.accounts)}
                   /\ Len(instruction.accounts) > 1

\* a withdraw by an authority that is not the stake account, to a third key
C7_Witness ==
    /\ pc = "built" /\ builder = "withdraw"
    /\ bargs.authorized # bargs.stake /\ bargs.to # bargs.authorized
    /\ Len(instruction.accounts) = 5
    /\ instruction.accounts[5].is_signer

\* a designated sysvar or config account of the decoded instruction is rejected
DesignatedRejected ==
    /\ decoded.ok
    /\ CASE decoded.val.tag = "Initialize" -> Rejected(1, sysvar_rent_id, "rent")
         [] decoded.val.tag = "DelegateStake" ->
               Rejected(2, sysvar_clock_id, "clock") \/ Rejected(3, config_id, "config")
         [] decoded.val.tag = "RedeemVoteCredits" ->
               \/ Rejected(3, sysvar_rewards_id, "rewards")
               \/ Rejected(4, sysvar_stake_history_id, "stake_history")
         [] decoded.val.tag = "Withdraw" ->
               \/ Rejected(1, sysvar_clock_id, "clock")
               \/ Rejected(2, sysvar_stake_history_id, "stake_history")
         [] decoded.val.tag = "Deactivate" -> Rejected(1, sysvar_clock_id, "clock")
         [] OTHER -> FALSE

StructuralError ==
    pre_accounts = <<>> \/ ~decoded.ok \/ TooFew \/ DesignatedRejected

(* C8: when the call fails for the shape of its input (no account, a       *)
(* payload that does not decode, too few accounts, a designated sysvar or  *)
(* config account that is rejected) no operation has been called and every *)
(* account is as it was.                                                   *)
C8_StructuralErrorsTouchNothing ==
    (Done /\ StructuralError)
        => (~result.ok /\ invoked = "none" /\ keyed_accounts = pre_accounts)

\* a Deactivate, signed, on a delegated stake, that only the clock account stops
C8_Witness ==
    /\ Done /\ Decodes("Deactivate") /\ Rejected(1, sysvar_clock_id, "clock")
    /\ pre_accounts[1].is_signer
    /\ pre_accounts[1].account = Account(Funded + 42,
                                         StakeData(Stake(MetaOwn, Delegated(EPOCH_MAX))))
    /\ ~result.ok

(* C9: a call that returns an error leaves the lamports and the data of    *)
(* every account it was given as they were before the call.                *)
C9_ErrorsLeaveAccountsUnchanged ==
    (Done /\ ~result.ok) => keyed_accounts = pre_accounts

\* an operation that ran and refused: a Withdraw of more than is free
C9_Witness ==
    Done /\ invoked = "withdraw" /\ result = InsufficientFunds

(* C10: when the account count is accepted and the account at a position   *)
(* read as a sysvar does not carry the sysvar's id (rewards, or stake      *)
(* history behind a valid rewards account, for RedeemVoteCredits; clock    *)
(* for Withdraw and for Deactivate), the call fails with InvalidArgument   *)
(* and no operation is called.                                             *)
C10_WrongSysvarIdIsInvalidArgument ==
    (/\ Done /\ pre_accounts # <<>> /\ decoded.ok
     /\ result # InvalidInstructionData
     /\ \/ Decodes("RedeemVoteCredits") /\ WrongId(3, sysvar_rewards_id)
        \/ /\ Decodes("RedeemVoteCredits")
           /\ Valid(3, sysvar_rewards_id, "rewards")
           /\ WrongId(4, sysvar_stake_history_id)
        \/ Decodes("Withdraw") /\ WrongId(1, sysvar_clock_id)
        \/ Decodes("Deactivate") /\ WrongId(1, sysvar_clock_id))
        => (result = InvalidArgument /\ invoked = "none")

\* a Withdraw whose first account is no clock and whose second account carries
\* the stake history id over data that is no stake history
C10_Witness ==
    /\ Done /\ Decodes("Withdraw") /\ Len(rest_in) >= 3
    /\ WrongId(1, sysvar_clock_id)
    /\ rest_in[2].key = sysvar_stake_history_id
    /\ Rejected(2, sysvar_stake_history_id, "stake_history")
    /\ result = InvalidArgument

----------------------------------------------------------------------------
\* the account count of the decoded instruction is the one its arm accepts
ArityAccepted ==
    /\ pre_accounts # <<>> /\ decoded.ok
    /\ IF decoded.val.tag = "RedeemVoteCredits" THEN Len(rest_in) = 4
       ELSE Len(rest_in) >= MinExtra(decoded.val.tag)

(* C11: when the payload decodes, the account count is accepted and every  *)
(* designated sysvar and config account is valid, but the primary          *)
(* account's data holds no StakeState, then DelegateStake,                 *)
(* RedeemVoteCredits, Withdraw and Deactivate fail with InvalidAccountData *)
(* and the accounts are as they were.                                      *)
C11_NoStakeStateIsInvalidAccountData ==
    (/\ Done /\ ArityAccepted /\ ~DesignatedRejected
     /\ decoded.val.tag \in {"DelegateStake", "RedeemVoteCredits", "Withdraw", "Deactivate"}
     /\ ~state_of(pre_accounts[1]).ok)
        => (result = InvalidAccountData /\ keyed_accounts = pre_accounts)

\* a signed Deactivate over Account::default() and a valid clock
C11_Witness ==
    /\ Done /\ Decodes("Deactivate") /\ ArityAccepted /\ ~DesignatedRejected
    /\ pre_accounts[1].account = AccountDefault /\ pre_accounts[1].is_signer
    /\ invoked = "deactivate_stake" /\ result = InvalidAccountData

\* the account list with its signer flags replaced by `flags`
WithSigners(accounts, flags) ==
    [i \in DOMAIN accounts |-> [accounts[i] EXCEPT !.is_signer = flags[i]]]
\* an account list without its signer flags
Unsigned(accounts) == WithSigners(accounts, [i \in DOMAIN accounts |-> FALSE])

----------------------------------------------------------------------------
\* the ledger has just run the instruction of the named builder
Ran(name) == pc = "ran" /\ builder = name
\* the ledger's stake account, and its state
StakeAccount == ledger[Keys.stake]
StakeNow == StakeAccount.data.state
\* the stake account as the last instruction found it, and its state
StakeBefore == pre_accounts[1].account
StateBefore == StakeBefore.data.state

(* C13: an Initialize of an Uninitialized account holding the rent-exempt  *)
(* minimum succeeds and leaves Initialized(Meta) with the authorities and  *)
(* the lockup of the instruction; from then on, whatever instructions      *)
(* follow, the account is never Uninitialized again and every further      *)
(* Initialize fails with AccountAlreadyInitialized and changes nothing.    *)
C13_InitializeSucceedsOnce ==
    /\ was_initialized => StakeNow.tag \in {"Initialized", "Stake"}
    /\ Ran("create_stake_account_with_lockup") =>
          IF StateBefore.tag = "Uninitialized"
          THEN (StakeBefore.lamports
                    >= minimum_balance(DEFAULT_LAMPORTS_PER_BYTE, StakeBefore.data.len))
                 => /\ result.ok
                    /\ StakeNow.tag = "Initialized"
                    /\ StakeNow.meta.authorized = decoded.val.authorized
                    /\ StakeNow.meta.lockup = decoded.val.lockup
                    /\ StakeAccount.lamports = StakeBefore.lamports
          ELSE /\ result = AccountAlreadyInitialized
               /\ keyed_accounts = pre_accounts
               /\ StakeAccount = StakeBefore

\* a further Initialize, of a stake that was delegated and then emptied by a
\* Withdraw in a later epoch
C13_Witness ==
    /\ Ran("create_stake_account_with_lockup")
    /\ StateBefore.tag = "Stake" /\ withdrew /\ current_epoch > 0
    /\ result = AccountAlreadyInitialized

----------------------------------------------------------------------------
\* the balance the rent account handed to an Initialize asks of the primary account
SuppliedMinimum ==
    minimum_balance(rest_in[1].account.data.lamports_per_byte,
                    pre_accounts[1].account.data.len)

(* C14: an Initialize of an account whose balance is below the rent-exempt *)
(* minimum of its size under the parameters of the rent account handed in  *)
(* fails with InsufficientFunds before initialize is called, and the       *)
(* account is as it was: an Uninitialized one stays Uninitialized.         *)
C14_NotRentExemptIsInsufficientFunds ==
    (/\ Done /\ Decodes("Initialize") /\ ArityAccepted
     /\ Valid(1, sysvar_rent_id, "rent")
     /\ pre_accounts[1].account.lamports < SuppliedMinimum)
        => /\ result = InsufficientFunds
           /\ invoked = "none"
           /\ keyed_accounts = pre_accounts

\* a balance of 1,000,000 against a reserve of 2,282,880
C14_Witness ==
    /\ Done /\ Decodes("Initialize") /\ result = InsufficientFunds
    /\ pre_accounts[1].account.data = StakeData(Uninitialized)
    /\ pre_accounts[1].account.lamports = 1000000 /\ SuppliedMinimum = 2282880
    /\ keyed_accounts[1].account.data = StakeData(Uninitialized)

----------------------------------------------------------------------------
\* a RedeemVoteCredits whose accounts are all what the instruction designates,
\* over a delegated stake and the vote account it is delegated to
RedeemWellFormed ==
    /\ Decodes("RedeemVoteCredits") /\ ArityAccepted /\ ~DesignatedRejected
    /\ state_of(pre_accounts[1]).ok /\ StateBefore.tag = "Stake"
    /\ rest_in[1].account.data.kind = "vote"
    /\ rest_in[1].key = StateBefore.stake.delegation.voter_pubkey
    /\ state_of(rest_in[2]).ok /\ rest_in[2].account.data.state.tag = "RewardsPool"

(* C15: a RedeemVoteCredits of a stake whose credits_observed equals the   *)
(* credit counter of its vote account fails with the custom error          *)
(* NoCreditsToRedeem (code 0) and leaves the stake account, the rewards    *)
(* pool and the vote account as they were; run again over the accounts it  *)
(* left, it gives the same error and the same accounts.                    *)
C15_NoNewCreditsIsNoCreditsToRedeem ==
    (/\ Done /\ RedeemWellFormed
     /\ rest_in[1].account.data.credits = StateBefore.stake.credits_observed)
        => /\ result = CustomError(0)
           /\ keyed_accounts = pre_accounts
           /\ LET again == process_instruction(keyed_accounts, data)
              IN again.result = result /\ again.accounts = keyed_accounts

C15_Witness ==
    /\ Done /\ RedeemWellFormed
    /\ rest_in[1].account.data.credits = 100
    /\ StateBefore.stake.credits_observed = 100
    /\ invoked = "redeem_vote_credits"
    /\ result = CustomError(0)

----------------------------------------------------------------------------
\* a Withdraw whose clock and stake history accounts are valid, over an account
\* that holds a StakeState
WithdrawWellFormed ==
    /\ Decodes("Withdraw") /\ ArityAccepted /\ ~DesignatedRejected
    /\ state_of(pre_accounts[1]).ok
HasMeta == StateBefore.tag \in {"Initialized", "Stake"}
\* what the stake account may give away: its balance less the reserve and less
\* the stake that is effective at the clock's epoch
Withdrawable ==
    StakeBefore.lamports
    - (IF HasMeta THEN StateBefore.meta.rent_exempt_reserve ELSE 0)
    - (IF StateBefore.tag = "Stake"
       THEN effective_stake(StateBefore.stake.delegation,
                            rest_in[1].account.data.epoch,
                            rest_in[2].account.data.entries)
       ELSE 0)
\* the keys that signed the instruction
Signed == {pre_accounts[i].key : i \in {j \in DOMAIN pre_accounts : pre_accounts[j].is_signer}}
Withdrawer == IF HasMeta THEN StateBefore.meta.authorized.withdrawer ELSE pre_accounts[1].key
LockedNow == HasMeta /\ lockup_in_force(StateBefore.meta.lockup, rest_in[1].account.data)
\* the lamports of every account are what they were
NoLamportsMoved ==
    \A i \in DOMAIN pre_accounts :
        keyed_accounts[i].account.lamports = pre_accounts[i].account.lamports

(* C16: a Withdraw of more than the balance less the reserve less the      *)
(* effective stake moves no lamports; signed by the withdrawer and not     *)
(* held back by a lockup, it fails with InsufficientFunds.                 *)
C16_OverdrawIsInsufficientFunds ==
    (Done /\ WithdrawWellFormed /\ decoded.val.lamports > Withdrawable)
        => /\ ~result.ok
           /\ NoLamportsMoved
           /\ (/\ Withdrawer \in Signed
               /\ ~(LockedNow /\ StateBefore.meta.lockup.custodian \notin Signed))
                 => result = InsufficientFunds

\* a stake fully effective: of a balance 42 above reserve and stake, the
\* withdrawer asks for the stake
C16_Witness ==
    /\ Done /\ WithdrawWellFormed /\ StateBefore.tag = "Stake"
    /\ Withdrawer \in Signed /\ ~LockedNow
    /\ Withdrawable = 42 /\ decoded.val.lamports = Funded - Reserve
    /\ result = InsufficientFunds

----------------------------------------------------------------------------
\* a Withdraw the withdrawer signed, of an account under a lockup in force
LockedWithdraw ==
    Done /\ WithdrawWellFormed /\ LockedNow /\ Withdrawer \in Signed
Custodian == StateBefore.meta.lockup.custodian
\* the account list with the custodian's signature after it
WithCustodian == pre_accounts \o <<KeyedAccount(Custodian, TRUE, AccountDefault)>>

(* C17: while a lockup is in force, a Withdraw signed by the withdrawer    *)
(* and not by the custodian fails with LockupInForce (code 1) and moves no *)
(* lamports; with the custodian signing as well, a Withdraw of no more     *)
(* than is withdrawable succeeds and moves the lamports to the             *)
(* destination, and so does the refused Withdraw once the custodian's      *)
(* signature is added to it.                                               *)
C17_LockupNeedsCustodian ==
    /\ (LockedWithdraw /\ Custodian \notin Signed)
          => /\ result = CustomError(1)
             /\ NoLamportsMoved
             /\ decoded.val.lamports <= Withdrawable
                   => process_instruction(WithCustodian, data).result.ok
    /\ (LockedWithdraw /\ Custodian \in Signed /\ decoded.val.lamports <= Withdrawable)
          => /\ result.ok
             /\ keyed_accounts[1].account.lamports
                   = StakeBefore.lamports - decoded.val.lamports
             /\ keyed_accounts[4].account.lamports
                   = pre_accounts[4].account.lamports + decoded.val.lamports

\* a lockup by the clock's time, its epoch long past: the Withdraw is refused
\* without the custodian and granted with the custodian
C17_Witness ==
    /\ LockedWithdraw /\ Custodian \notin Signed
    /\ rest_in[1].account.data.epoch >= StateBefore.meta.lockup.epoch
    /\ decoded.val.lamports = Funded - Reserve
    /\ result = CustomError(1)
    /\ process_instruction(WithCustodian, data).result.ok

----------------------------------------------------------------------------
\* a Deactivate that decodes, with its account count accepted
DeactivateRan == Done /\ Decodes("Deactivate") /\ ArityAccepted
\* the stake account's state after the instruction
StateAfter == state_of(keyed_accounts[1]).val
\* the stake account before the instruction is a Stake
WasStake == state_of(pre_accounts[1]).ok /\ StateBefore.tag = "Stake"
\* the staker is among the signers the operation looks through
StakerSigned ==
    StateBefore.meta.authorized.staker
        \in signers(pre_accounts[1], Drop(rest_in, 1))

----------------------------------------------------------------------------
\* the stake account of ledger `l` holds a delegation
IsStake(l) == l[Keys.stake].data.state.tag = "Stake"
CreditsObserved(l) == l[Keys.stake].data.state.stake.credits_observed
\* the vote account the stake of ledger `l` is delegated to
VoterOf(l) == l[Keys.stake].data.state.stake.delegation.voter_pubkey
\* credits_observed is at most the credit counter of the paired vote account
CreditsWithinCounter ==
    IsStake(ledger) => CreditsObserved(ledger) <= ledger[VoterOf(ledger)].data.credits
\* a step from a Stake to a Stake does not lower credits_observed
CreditsNeverLowered ==
    (IsStake(ledger) /\ IsStake(ledger'))
        => CreditsObserved(ledger') >= CreditsObserved(ledger)
\* the same, for the steps that keep the vote account the stake is delegated to
CreditsNeverLoweredUnderOneVoter ==
    (IsStake(ledger) /\ IsStake(ledger') /\ VoterOf(ledger') = VoterOf(ledger))
        => CreditsObserved(ledger') >= CreditsObserved(ledger)

(* C19, as stated: over every sequence of instructions, with the vote      *)
(* accounts' counters only rising, credits_observed never decreases from   *)
(* one state to the next and never exceeds the counter of the vote account *)
(* the stake is delegated to.                                              *)
C19_CreditsObservedMonotone ==
    []CreditsWithinCounter /\ [][CreditsNeverLowered]_vars

(* C19, amended: credits_observed never exceeds the counter of the vote    *)
(* account the stake is delegated to, and never decreases while the stake  *)
(* stays delegated to the same vote account; a delegation to another vote  *)
(* account sets it to that account's counter, which may be lower.          *)
C19_CreditsObservedMonotonePerVoter ==
    []CreditsWithinCounter /\ [][CreditsNeverLoweredUnderOneVoter]_vars

\* a stake that had observed the 100 credits of its vote account has been
\* delegated to the other vote account and observes less
C19_Witness ==
    /\ Ran("delegate_stake") /\ result.ok
    /\ state_of(pre_accounts[1]).ok /\ StateBefore.tag = "Stake" /\ IsStake(ledger)
    /\ StateBefore.stake.delegation.voter_pubkey # VoterOf(ledger)
    /\ StateBefore.stake.credits_observed >= 100
    /\ CreditsObserved(ledger) < StateBefore.stake.credits_observed
    /\ CreditsObserved(ledger) = ledger[VoterOf(ledger)].data.credits

----------------------------------------------------------------------------
\* what the stake account holds above its reserve
AboveReserve == StakeAccount.lamports - StakeNow.meta.rent_exempt_reserve
\* an account with a Meta holds at least its reserve
ReserveKept == StakeNow.tag \in {"Initialized", "Stake"} => AboveReserve >= 0
\* a delegation stakes no more than the account holds above its reserve
StakeBacked ==
    StakeNow.tag = "Stake" => StakeNow.stake.delegation.stake <= AboveReserve

----------------------------------------------------------------------------
\* the ledger has just run an Authorize over an account that has a Meta
AuthorizeRan == Ran("authorize") /\ state_of(pre_accounts[1]).ok /\ HasMeta
Role == decoded.val.stake_authorize
NewKey == decoded.val.pubkey
\* the key that held the role before the instruction
OldKey ==
    IF Role = "Staker" THEN StateBefore.meta.authorized.staker
    ELSE StateBefore.meta.authorized.withdrawer
\* the state with the key of the role replaced, and nothing else
Reauthorized ==
    IF Role = "Staker" THEN [StateBefore EXCEPT !.meta.authorized.staker = NewKey]
    ELSE [StateBefore EXCEPT !.meta.authorized.withdrawer = NewKey]
\* what the ledger as it is now answers to an instruction
Answer(ins) == process_instruction(Loaded(ledger, current_epoch, ins), ins.data).result
\* the instructions of the role, signed by the old key alone
ByOldKey ==
    {authorize(Keys.stake, OldKey, OldKey, Role)}
    \cup (IF Role = "Staker"
          THEN {deactivate_stake(Keys.stake, OldKey),
                delegate_stake(Keys.stake, OldKey, Keys.vote2)}
          ELSE {withdraw(Keys.stake, OldKey, Keys.to, 1)})
\* a granted Authorize writes the key of its role and nothing else
AuthorizeFrame ==
    (AuthorizeRan /\ result.ok)
        => /\ StakeNow = Reauthorized
           /\ StakeAccount.lamports = StakeBefore.lamports
\* the old key has lost the role
OldKeyRejected ==
    (AuthorizeRan /\ result.ok /\ NewKey # OldKey)
        => \A ins \in ByOldKey : ~Answer(ins).ok
\* the lockup of the account is in force at the ledger's clock
LedgerLockupInForce ==
    lockup_in_force(StateBefore.meta.lockup, ClockData(current_epoch, current_epoch))
\* the withdrawer changes its key under a lockup, the custodian not signing
LockedReauthorize ==
    /\ AuthorizeRan /\ Role = "Withdrawer" /\ LedgerLockupInForce
    /\ OldKey \in Signed /\ Custodian \notin Signed

(* C21: a successful Authorize(new_key, role) replaces only the key of     *)
(* that role and leaves the other role's key, the lockup, the reserve, the *)
(* delegation and the balance as they were; afterwards an instruction for  *)
(* that role signed only by the old key is rejected; and a change of the   *)
(* withdrawer while the lockup is in force, without the custodian's        *)
(* signature, fails with LockupInForce (code 1).                           *)
C21_AuthorizeFrameAndLockup ==
    /\ AuthorizeFrame
    /\ OldKeyRejected
    /\ LockedReauthorize => result = CustomError(1)

----------------------------------------------------------------------------
\* the calculator has answered a call for a delegation that is not deactivated
Warmed ==
    pc = "returned" /\ call.fn = "stake"
    /\ call.delegation.deactivation_epoch = EPOCH_MAX
\* what a stake history of that total lets a delegation warm up by in an epoch
Headroom(total) == (RATE_NUM * total) \div RATE_DEN
\* the epochs since the activation
Elapsed == call.epoch - call.delegation.activation_epoch

(* C22: for a delegation activated at epoch a and not deactivated, the     *)
(* calculator returns 0 at every epoch up to a, and the full delegated     *)
(* amount once the epochs since a, at the history's headroom each, cover   *)
(* the amount; the effective stake never exceeds the delegated amount.     *)
C22_WarmupFromZeroToFull ==
    /\ (pc = "returned" /\ call.fn = "stake")
          => returned.value \in 0..call.delegation.stake
    /\ (Warmed /\ Elapsed <= 0) => returned.value = 0
    /\ (Warmed /\ Elapsed > 0
            /\ Elapsed * Headroom(call.total) >= call.delegation.stake)
          => returned.value = call.delegation.stake

\* 7,717,120 lamports delegated at epoch 10 are all effective at epoch 14,
\* at 2,000,000 lamports an epoch
C22_Witness ==
    /\ Warmed /\ call.delegation.stake = 7717120
    /\ call.delegation.activation_epoch = 10 /\ call.epoch = 14
    /\ Headroom(call.total) = 2000000
    /\ returned = Returns(7717120)

----------------------------------------------------------------------------
\* pretty_err has answered for the InstructionError `err`
PrettyErrOf(err) == pc = "returned" /\ call.fn = "pretty_err" /\ call.err = err

(* C23: StakeError has two members, NoCreditsToRedeem with code 0 and      *)
(* LockupInForce with code 1; a StakeError converted into an               *)
(* InstructionError is CustomError(code), and that code decodes back to    *)
(* the same StakeError with its fixed message; no other code decodes to a  *)
(* StakeError.                                                             *)
C23_StakeErrorCodesRoundTrip ==
    /\ StakeErrorInto("NoCreditsToRedeem") = CustomError(0)
    /\ StakeErrorInto("LockupInForce") = CustomError(1)
    /\ PrettyErrOf(CustomError(0))
          => returned = Returns(<<CustomError(0), "StakeError", "NoCreditsToRedeem",
                                  "not enough credits to redeem">>)
    /\ PrettyErrOf(CustomError(1))
          => returned = Returns(<<CustomError(1), "StakeError", "LockupInForce",
                                  "lockup has not yet expired">>)
    /\ (pc = "returned" /\ call.fn = "pretty_err" /\ call.err.err = "CustomError"
            /\ call.err.code \notin {0, 1})
          => returned = Panics

\* test_custom_error_decode: NoCreditsToRedeem, converted and decoded
C23_Witness ==
    /\ PrettyErrOf(StakeErrorInto("NoCreditsToRedeem"))
    /\ returned.value[3] = "NoCreditsToRedeem"
    /\ returned.value[4] = "not enough credits to redeem"

----------------------------------------------------------------------------
\* an instruction has been encoded into `data` and decoded again
RoundTripped == pc = "returned" /\ call.fn = "deserialize"

(* C24: decoding the byte form of an instruction of any of the six         *)
(* variants gives back the same instruction, encoding the decoded          *)
(* instruction gives the same bytes, and no other instruction has the same *)
(* byte form.                                                              *)
C24_CodecRoundTrip ==
    RoundTripped
        => /\ returned.value = Decoded(call.instruction)
           /\ serialize(returned.value.val) = data
           /\ \A other \in CodecInstructions :
                 serialize(other) = data => other = call.instruction

\* an Authorize of the withdrawer's role, encoded in 40 bytes and decoded
C24_Witness ==
    /\ RoundTripped /\ call.instruction = Authorize(Keys.auth, "Withdrawer")
    /\ Len(data) = U32_BYTES + PUBKEY_BYTES + U32_BYTES
    /\ returned.value.ok /\ returned.value.val.stake_authorize = "Withdrawer"

----------------------------------------------------------------------------
\* the worst-case packed length of the types of the model, worked out by hand:
\* the width of a primitive, 32 one-byte elements, 2 + 4, no fields,
\* 8 + 8 + 32, 1 + the larger of 0 and 8, 1 + the larger of 1 and 48
PackedLen(declaration) ==
    CASE declaration = "Array<u8, 32>" -> 32
      [] declaration = "Tuple<u16, u32>" -> 6
      [] declaration = "Unit" -> 0
      [] declaration = "Lockup" -> 48
      [] declaration = "Option<u64>" -> 9
      [] declaration = "Either" -> 49
      [] OTHER -> primitive_len(declaration).value
PackedLenAsked == pc = "returned" /\ call.fn = "get_packed_len"

(* C25: get_packed_len returns the worst-case packed length of a type      *)
(* built from primitives, arrays, tuples, structs and enums; it returns a  *)
(* value, and does not panic, for a type whose schema has definitions.     *)
C25_PackedLenOfEverySchema ==
    PackedLenAsked => returned = Returns(PackedLen(call.schema.declaration))

----------------------------------------------------------------------------
\* the designated sysvar and config accounts of an instruction, in the order of
\* their positions after the primary account, as the accounts parse
Parses(tag) ==
    CASE tag = "DelegateStake" ->
            <<sysvar_clock_from_keyed_account(rest_in[2]),
              config_from_keyed_account(rest_in[3])>>
      [] tag = "RedeemVoteCredits" ->
            <<sysvar_rewards_from_keyed_account(rest_in[3]),
              sysvar_stake_history_from_keyed_account(rest_in[4])>>
      [] tag = "Withdraw" ->
            <<sysvar_clock_from_keyed_account(rest_in[1]),
              sysvar_stake_history_from_keyed_account(rest_in[2])>>
      [] tag = "Deactivate" -> <<sysvar_clock_from_keyed_account(rest_in[1])>>
\* an instruction with designated sysvar or config accounts, its account count
\* accepted
WithDesignated ==
    /\ Done /\ ArityAccepted
    /\ decoded.val.tag \in {"DelegateStake", "RedeemVoteCredits", "Withdraw", "Deactivate"}
\* both designated accounts of the instruction are invalid, for different reasons
BothInvalid ==
    /\ WithDesignated /\ Len(Parses(decoded.val.tag)) = 2
    /\ ~Parses(decoded.val.tag)[1].ok /\ ~Parses(decoded.val.tag)[2].ok
    /\ Parses(decoded.val.tag)[1].err # Parses(decoded.val.tag)[2].err

(* C26: the designated sysvar and config accounts are parsed in the order  *)
(* of their positions and before the operation runs: the error returned is *)
(* that of the first invalid one, whatever the stake account holds and     *)
(* whoever signed, and no operation is called.                             *)
C26_FirstInvalidDesignatedWins ==
    WithDesignated
        => \A i \in DOMAIN Parses(decoded.val.tag) :
              (/\ ~Parses(decoded.val.tag)[i].ok
               /\ \A j \in 1..(i - 1) : Parses(decoded.val.tag)[j].ok)
                 => /\ result = Parses(decoded.val.tag)[i].err
                    /\ invoked = "none"
                    /\ keyed_accounts = pre_accounts

\* a Withdraw nobody signed, from an account that holds no stake state, with a
\* clock of the wrong key and a stake history of the wrong content: the
\* clock's error is returned
C26_Witness ==
    /\ BothInvalid /\ decoded.val.tag = "Withdraw"
    /\ ~state_of(pre_accounts[1]).ok
    /\ \A i \in DOMAIN pre_accounts : ~pre_accounts[i].is_signer
    /\ result = InvalidArgument
    /\ Parses("Withdraw")[2].err = InvalidAccountData

----------------------------------------------------------------------------
\* the positions after the primary account that the arm of an instruction
\* reads by index: rest[0] is position 1
Reads(tag) ==
    CASE tag = "Initialize" -> {1}
      [] tag = "Authorize" -> {}
      [] tag = "DelegateStake" -> {1, 2, 3}
      [] tag = "RedeemVoteCredits" -> {1, 2, 3, 4}
      [] tag = "Withdraw" -> {1, 2}
      [] tag = "Deactivate" -> {1}
\* the index in the full account list, counted from 0, of the first account
\* handed to the operation
HandedFrom(op) ==
    CASE op = "authorize" -> 1
      [] op = "delegate_stake" -> 4
      [] op = "withdraw" -> 3
      [] op = "deactivate_stake" -> 2
\* the call was turned away for the number of its accounts
ArityRejected == result = InvalidInstructionData /\ invoked = "none"

----------------------------------------------------------------------------
(* C28: Authorize needs no account beyond the primary one: for a non-empty *)
(* account list and a payload that decodes to an Authorize the dispatcher  *)
(* returns no arity error and calls authorize with all the accounts after  *)
(* the primary one as candidate signers; the authorize builder lists no    *)
(* account but the stake account and its authority.                        *)
C28_AuthorizeNeedsNoFurtherAccount ==
    /\ (Done /\ pre_accounts # <<>> /\ Decodes("Authorize"))
          => /\ invoked = "authorize"
             /\ handed = rest_in
             /\ ~ArityRejected
    /\ builder = "authorize"
          => Len(instruction.accounts) = (IF bargs.authorized = bargs.stake THEN 1 ELSE 2)

\* an Authorize with the stake account alone, which signed: granted
C28_Witness ==
    /\ Done /\ Decodes("Authorize") /\ Len(pre_accounts) = 1
    /\ invoked = "authorize" /\ handed = <<>> /\ result.ok

=============================================================================
